---- MODULE Spec2Model ----
(***************************************************************************)
(* Session reconstruction of cat_flap_extractor_v5.py                      *)
(* (ProductionCatFlapExtractor): duration/timestamp parsing, single        *)
(* timestamp classification, cross-midnight detection, session building,   *)
(* daily totals, validation and date resolution.                           *)
(*                                                                         *)
(* Texts are modelled by what the parsers read from them:                  *)
(*   [kind, a, b]  kind "none"  = None, "empty" = '', "junk" = text the    *)
(*   parser rejects, "hm" = "AA:BB" (timestamp), "h" = "AA:BB h",          *)
(*   "mins" = "AA:BB mins", "s" = "A s", "nan" = "nan h" (durations).      *)
(* A Python float holding a number of hours is modelled by the exact       *)
(* number of seconds; the places where IEEE-754 double rounding makes the  *)
(* program deviate from exact arithmetic are the two tables                *)
(* FloatUnderHalf and FloatTruncLoss.                                      *)
(***************************************************************************)
EXTENDS Integers, Sequences, FiniteSets, TLC

VARIABLES
    errors,             \* self.errors
    warnings,           \* self.warnings
    state_issues,       \* self.state_issues
    confidence_issues,  \* self.confidence_issues
    pc,                 \* "call" before the operation under study, "done" after
    timestamp,          \* argument of determine_single_timestamp_type
    duration_str,       \* argument of determine_single_timestamp_type
    daily_data,         \* the report's per-day data, in dict insertion order
    report_year,        \* report_info['report_year']
    sessions,           \* list of session dicts (argument or result)
    result,             \* return value of the last call
    results,            \* the batch of process_pdf results (process_directory)
    csv,                \* the rows save_to_csv wrote to output_path
    master_dataset,     \* the rows of master_dataset.csv
    processed_data,     \* the rows of processed_data.csv
    duplicate_report,   \* the counts written to duplicate_report.txt
    complete_table      \* the rows reconstruct_complete_table returned

vars == <<errors, warnings, state_issues, confidence_issues, pc, timestamp,
          duration_str, daily_data, report_year, sessions, result, results,
          csv, master_dataset, processed_data, duplicate_report,
          complete_table>>

diagnostics == <<errors, warnings, state_issues, confidence_issues>>

\* the state of batch ordering and output
batch == <<results, csv>>

\* the files of the dataset merge
files == <<master_dataset, processed_data, duplicate_report>>

----------------------------------------------------------------------------
(* Values *)

Text(k, x, y) == [kind |-> k, a |-> x, b |-> y]
NoneText == Text("none", 0, 0)
EmptyText == Text("empty", 0, 0)
JunkText == Text("junk", 0, 0)
Time(h, m) == Text("hm", h, m)
DurH(h, m) == Text("h", h, m)
DurMins(m, s) == Text("mins", m, s)
DurS(s) == Text("s", s, 0)
\* the text "nan h"
DurNaN == Text("nan", 0, 0)

\* Python truthiness of an Optional[str]
Truthy(t) == t.kind \notin {"none", "empty"}

\* Optional numbers; nan marks a float that is NaN (float('nan') accepts the
\* text "nan"), which compares false with every number and is truthy
Some(x) == [ok |-> TRUE, nan |-> FALSE, v |-> x]
None == [ok |-> FALSE, nan |-> FALSE, v |-> 0]
NaN == [ok |-> TRUE, nan |-> TRUE, v |-> 0]

\* Python truthiness of an Optional number
TruthyNumber(n) == n.ok /\ (n.nan \/ n.v # 0)

Abs(x) == IF x < 0 THEN -x ELSE x

\* no batch has been processed and nothing has been written
NoBatch == results = <<>> /\ csv = <<>>

\* duplicate_report.txt: the four counts main() writes
DuplicateReport(processed, duplicates, unique, total) ==
    [written |-> TRUE, processed |-> processed, duplicates |-> duplicates,
     unique |-> unique, total |-> total]
NoDuplicateReport ==
    [written |-> FALSE, processed |-> 0, duplicates |-> 0, unique |-> 0,
     total |-> 0]

\* no dataset file exists
NoFiles ==
    /\ master_dataset = <<>> /\ processed_data = <<>>
    /\ duplicate_report = NoDuplicateReport

----------------------------------------------------------------------------
(* Program constants *)

MINUTES_PER_DAY == 1440
MORNING_MINUTES == 720
SHORT_DURATION_SECONDS == 43200
TOLERANCE_SECONDS == 1800
LATE_EVENING_MINUTES == 1200
EARLY_MORNING_MINUTES == 480

----------------------------------------------------------------------------
(* Duration / timestamp normalizer *)

\* parse_duration_hours: the hours as an exact number of seconds.
\* "junk" stands for every text the function rejects (no unit letter, or a
\* number part that int()/float() refuses).
parse_duration_hours(d) ==
    CASE d.kind = "h" -> Some(d.a * 3600 + d.b * 60)
      [] d.kind = "mins" -> Some(d.a * 60 + d.b)
      [] d.kind = "s" -> Some(d.a)
      [] d.kind = "nan" -> NaN
      [] OTHER -> None

\* parse_timestamp_to_minutes: no range validation ("25:00" gives 1500)
parse_timestamp_to_minutes(t) ==
    IF t.kind = "hm" THEN Some(t.a * 60 + t.b) ELSE None

----------------------------------------------------------------------------
(* IEEE-754 double rounding                                                *)
(*                                                                         *)
(* The program compares abs(duration_hours - minutes / 60) < 0.5 in double *)
(* arithmetic.  For the texts of this model (hours 0..24, minutes and      *)
(* seconds 0..59, timestamps up to 25:00) the double result equals the     *)
(* exact one except when the exact difference is 30 minutes: there the     *)
(* rounding of minutes / 60 decides.  FloatUnderHalf lists the pairs       *)
(* <<minutes, duration in minutes>> of exact difference 30 for which the   *)
(* double comparison is true (CPython, binary64, round-to-nearest-even).   *)
(* FloatTruncLoss lists the durations "H:MM h", in minutes, for which      *)
(* int((H + MM/60) * 60) is one less than H*60 + MM.                       *)

FloatUnderHalf ==
    {<<12, 42>>, <<14, 44>>, <<23, 53>>, <<25, 55>>, <<27, 57>>, <<29, 59>>,
     <<31, 61>>, <<35, 65>>, <<39, 69>>, <<42, 12>>, <<44, 14>>, <<46, 76>>,
     <<47, 77>>, <<50, 80>>, <<53, 23>>, <<54, 84>>, <<55, 25>>, <<57, 27>>,
     <<59, 29>>, <<61, 31>>, <<62, 92>>, <<65, 35>>, <<69, 39>>, <<70, 100>>,
     <<73, 43>>, <<76, 46>>, <<77, 107>>, <<80, 50>>, <<84, 54>>, <<85, 115>>,
     <<88, 58>>, <<92, 122>>, <<93, 123>>, <<100, 130>>, <<101, 131>>,
     <<103, 73>>, <<107, 137>>, <<108, 138>>, <<109, 139>>, <<115, 145>>,
     <<118, 88>>, <<123, 93>>, <<124, 154>>, <<131, 101>>, <<138, 108>>,
     <<139, 169>>, <<146, 116>>, <<169, 199>>, <<176, 146>>, <<184, 214>>,
     <<191, 161>>, <<199, 229>>, <<206, 176>>, <<214, 244>>, <<215, 245>>,
     <<216, 246>>, <<217, 247>>, <<229, 259>>, <<230, 260>>, <<231, 261>>,
     <<232, 262>>, <<236, 206>>, <<245, 215>>, <<246, 216>>, <<247, 217>>,
     <<248, 278>>, <<260, 230>>, <<261, 231>>, <<262, 232>>, <<263, 293>>,
     <<307, 277>>, <<308, 338>>, <<322, 292>>, <<323, 353>>, <<367, 337>>,
     <<368, 398>>, <<382, 352>>, <<383, 413>>, <<427, 397>>, <<428, 458>>,
     <<442, 412>>, <<443, 473>>, <<458, 488>>, <<460, 490>>, <<462, 492>>,
     <<464, 494>>, <<473, 503>>, <<475, 505>>, <<477, 507>>, <<479, 509>>,
     <<490, 460>>, <<492, 462>>, <<494, 464>>, <<505, 475>>, <<507, 477>>,
     <<509, 479>>, <<931, 961>>, <<935, 965>>, <<939, 969>>, <<943, 973>>,
     <<946, 976>>, <<950, 980>>, <<954, 984>>, <<958, 988>>, <<961, 931>>,
     <<965, 935>>, <<969, 939>>, <<973, 943>>, <<976, 946>>, <<980, 950>>,
     <<984, 954>>, <<988, 958>>}

FloatTruncLoss ==
    {100, 115, 123, 245, 246, 247, 490, 492, 494, 505, 507, 509, 965, 969,
     973, 980, 984, 988, 995, 999, 1003, 1010, 1014, 1018}

\* abs(duration_hours - (minutes / 60)) < 0.5
WithinTolerance(duration_seconds, minutes) ==
    LET diff == Abs(duration_seconds - minutes * 60)
    IN  \/ diff < TOLERANCE_SECONDS
        \/ /\ diff = TOLERANCE_SECONDS
           /\ <<minutes, duration_seconds \div 60>> \in FloatUnderHalf

\* int(hours * 60)
TruncMinutes(d) ==
    LET secs == parse_duration_hours(d).v
    IN  IF d.kind = "h" /\ (secs \div 60) \in FloatTruncLoss
        THEN (secs \div 60) - 1
        ELSE secs \div 60

----------------------------------------------------------------------------
(* Diagnostics *)

\* A day label "Mon 30 Dec": what strptime reads from it
Label(d, m) == [kind |-> "dm", day |-> d, mon |-> m]
JunkLabel == [kind |-> "junk", day |-> 0, mon |-> ""]

\* One diagnostic message: the values its f-string interpolates
Note(k, file, date_str, ts, dur, d2, t2, n1, n2) ==
    [kind |-> k, file |-> file, date_str |-> date_str, timestamp |-> ts,
     duration |-> dur, date2 |-> d2, timestamp2 |-> t2,
     extracted |-> n1, reported |-> n2, file2 |-> ""]

\* f"{pdf_filename} - {date_str}: {timestamp} + {duration_str} = ENTRY (since midnight pattern)"
PatternNote(k, file, date_str, ts, dur) ==
    Note(k, file, date_str, ts, dur, date_str, ts, 0, 0)

\* f"{pdf_filename}: Cross-midnight session detected - ..."
CrossMidnightNote(file, d1, t1, d2, t2) ==
    Note("cross_midnight", file, d1, t1, NoneText, d2, t2, 0, 0)

----------------------------------------------------------------------------
(* Ambiguous timestamp resolver *)

Classified(t, notes) == [type |-> t, notes |-> notes]

MissingEvidenceType_exit == "exit"

\* the three early returns of determine_single_timestamp_type
MissingEvidenceType == "entry"

LongDurationType_entry(is_morning) == "entry"

\* Rule 7a / 7b for durations >= 12 h
LongDurationType(is_morning) == IF is_morning THEN "entry" ELSE "exit"

determine_single_timestamp_type_by_day(ts, dur, date_str, pdf_filename) ==
    IF ~Truthy(ts) \/ ~Truthy(dur)
    THEN Classified(MissingEvidenceType, <<>>)
    ELSE
    LET duration_hours == parse_duration_hours(dur)
        timestamp_minutes == parse_timestamp_to_minutes(ts)
        is_morning == timestamp_minutes.v < MORNING_MINUTES
        duration_under_12h ==
            ~duration_hours.nan /\ duration_hours.v < SHORT_DURATION_SECONDS
    IN  IF ~duration_hours.ok THEN Classified(MissingEvidenceType, <<>>)
        ELSE IF ~timestamp_minutes.ok THEN Classified(MissingEvidenceType, <<>>)
        ELSE IF is_morning /\ duration_under_12h
        THEN IF WithinTolerance(duration_hours.v, timestamp_minutes.v)
             THEN Classified("entry",
                      <<PatternNote("since_midnight", pdf_filename, date_str, ts, dur)>>)
             ELSE Classified(IF date_str.day = 6 THEN "exit" ELSE "entry", <<>>)
        ELSE IF ~is_morning /\ duration_under_12h
        THEN IF WithinTolerance(duration_hours.v,
                                MINUTES_PER_DAY - timestamp_minutes.v)
             THEN Classified("exit",
                      <<PatternNote("until_midnight", pdf_filename, date_str, ts, dur)>>)
             ELSE Classified("entry", <<>>)
        ELSE IF ~duration_hours.nan /\ duration_hours.v >= SHORT_DURATION_SECONDS
        THEN Classified(LongDurationType(is_morning), <<>>)
        ELSE Classified(IF is_morning THEN "entry" ELSE "exit", <<>>)

\* the type returned and the entries appended to confidence_issues
determine_single_timestamp_type(ts, dur, date_str, pdf_filename) ==
    IF ~Truthy(ts) \/ ~Truthy(dur)
    THEN Classified(MissingEvidenceType, <<>>)
    ELSE
    LET duration_hours == parse_duration_hours(dur)
        timestamp_minutes == parse_timestamp_to_minutes(ts)
        is_morning == timestamp_minutes.v < MORNING_MINUTES
        duration_under_12h ==
            ~duration_hours.nan /\ duration_hours.v < SHORT_DURATION_SECONDS
    IN  IF ~duration_hours.ok THEN Classified(MissingEvidenceType, <<>>)
        ELSE IF ~timestamp_minutes.ok THEN Classified(MissingEvidenceType, <<>>)
        ELSE IF is_morning /\ duration_under_12h
        THEN IF WithinTolerance(duration_hours.v, timestamp_minutes.v)
             THEN Classified("entry",
                      <<PatternNote("since_midnight", pdf_filename, date_str, ts, dur)>>)
             ELSE Classified("exit", <<>>)
        ELSE IF ~is_morning /\ duration_under_12h
        THEN IF WithinTolerance(duration_hours.v,
                                MINUTES_PER_DAY - timestamp_minutes.v)
             THEN Classified("exit",
                      <<PatternNote("until_midnight", pdf_filename, date_str, ts, dur)>>)
             ELSE Classified("entry", <<>>)
        ELSE IF ~duration_hours.nan /\ duration_hours.v >= SHORT_DURATION_SECONDS
        THEN Classified(LongDurationType(is_morning), <<>>)
        ELSE Classified(IF is_morning THEN "entry" ELSE "exit", <<>>)

----------------------------------------------------------------------------
(* Inputs of the classification *)

ClockHours == 0 .. 24
ClockMinutes == {0, 12, 30, 58}

TimestampTexts ==
    {Time(h, m) : h \in ClockHours, m \in ClockMinutes}
    \cup {Time(25, 0), Time(0, 21), Time(6, 6), NoneText, EmptyText, JunkText}

DurationMinutes == {0, 30, 42, 53}

DurationTexts ==
    {DurH(h, m) : h \in ClockHours, m \in DurationMinutes}
    \cup {DurH(1, 35), DurH(1, 40), DurH(7, 20), DurH(7, 45)}
    \cup {DurMins(21, 40), DurMins(24, 59), DurMins(0, 30), DurMins(42, 0)}
    \cup {DurS(36), DurS(0), NoneText, EmptyText, JunkText}

TestDay == Label(6, "Feb")
TestFile == "test.pdf"

----------------------------------------------------------------------------
(* Specification of one classification call *)

InitClassify ==
    /\ errors = <<>> /\ warnings = <<>> /\ state_issues = <<>>
    /\ confidence_issues = <<>>
    /\ pc = "call"
    /\ timestamp \in TimestampTexts
    /\ duration_str \in DurationTexts
    /\ daily_data = <<>>
    /\ report_year = 0
    /\ sessions = <<>>
    /\ result = ""
    /\ NoBatch /\ NoFiles
    /\ complete_table = <<>>

Classify ==
    /\ pc = "call"
    /\ LET c == determine_single_timestamp_type(timestamp, duration_str,
                                                TestDay, TestFile)
       IN  /\ result' = c.type
           /\ confidence_issues' = confidence_issues \o c.notes
    /\ pc' = "done"
    /\ UNCHANGED <<complete_table, errors, warnings, state_issues, timestamp, duration_str,
                   daily_data, report_year, sessions, batch, files>>

NextClassify == Classify

SpecClassify == InitClassify /\ [][NextClassify]_vars

\* the claims' reading of the inputs, in exact arithmetic
Parseable == timestamp.kind = "hm" /\ duration_str.kind \in {"h", "mins", "s"}
MinutesOfDay == timestamp.a * 60 + timestamp.b
DurationSeconds ==
    CASE duration_str.kind = "h" -> duration_str.a * 3600 + duration_str.b * 60
      [] duration_str.kind = "mins" -> duration_str.a * 60 + duration_str.b
      [] OTHER -> duration_str.a
MatchesSinceMidnight == Abs(DurationSeconds - MinutesOfDay * 60) < 1800
MatchesUntilMidnight == Abs(DurationSeconds - (1440 - MinutesOfDay) * 60) < 1800

\* C1: a parseable timestamp with a duration under 12 h is an entry in the
\* morning exactly when the duration is within 0.5 h of the time since
\* midnight, and an exit in the afternoon exactly when the duration is within
\* 0.5 h of the time until midnight.
C1_ShortDuration ==
    (pc = "done" /\ Parseable /\ DurationSeconds < 43200) =>
        result = IF MinutesOfDay < 720
                 THEN (IF MatchesSinceMidnight THEN "entry" ELSE "exit")
                 ELSE (IF MatchesUntilMidnight THEN "exit" ELSE "entry")

\* C2: with a duration of 12 h or more, a since-midnight match gives entry and
\* an until-midnight match gives exit, whatever the time of day.
C2_LongDurationMatch ==
    (pc = "done" /\ Parseable /\ DurationSeconds >= 43200) =>
        /\ MatchesSinceMidnight => result = "entry"
        /\ (~MatchesSinceMidnight /\ MatchesUntilMidnight) => result = "exit"

\* C3: with a duration of 12 h or more that matches neither pattern, the
\* classification falls back on the time of day.
C3_LongDurationFallback ==
    (pc = "done" /\ Parseable /\ DurationSeconds >= 43200
        /\ ~MatchesSinceMidnight /\ ~MatchesUntilMidnight) =>
        result = IF MinutesOfDay < 720 THEN "entry" ELSE "exit"

C3_Witness ==
    /\ pc = "done" /\ timestamp = Time(15, 0) /\ duration_str = DurH(13, 0)
    /\ result = "exit"

----------------------------------------------------------------------------
(* Sessions and daily totals *)

NoDate == [ok |-> FALSE, y |-> 0, m |-> 0, d |-> 0]
FullDate(yy, mm, dd) == [ok |-> TRUE, y |-> yy, m |-> mm, d |-> dd]

\* the session dict appended by build_sessions_with_enhanced_validation; the
\* keys added later (calculated totals, date_full) start absent
Session(date_str, n, exit, entry, dur, visits_pdf, time_pdf) ==
    [date_str |-> date_str, session_number |-> n, exit_time |-> exit,
     entry_time |-> entry, duration |-> dur,
     daily_total_visits_PDF |-> visits_pdf,
     daily_total_time_outside_PDF |-> time_pdf,
     daily_total_visits_calculated |-> None,
     daily_total_time_outside_calculated |-> NoneText,
     date_full |-> NoDate]

CountsAsVisit_complete(session) ==
    Truthy(session.exit_time) /\ Truthy(session.entry_time)

\* if session.get('exit_time'): visit_count += 1
CountsAsVisit(session) == Truthy(session.exit_time)

\* the minutes one session adds to total_minutes
SessionMinutes(session) ==
    LET hours == parse_duration_hours(session.duration)
    IN  IF Truthy(session.duration) /\ TruthyNumber(hours)
        THEN TruncMinutes(session.duration)
        ELSE 0

\* int(hours * 60) raises ValueError when hours is NaN; nothing catches it
IntRaises(session) ==
    LET hours == parse_duration_hours(session.duration)
    IN  Truthy(session.duration) /\ hours.ok /\ hours.nan

RECURSIVE VisitCount(_)
VisitCount(ss) ==
    IF ss = <<>> THEN 0
    ELSE (IF CountsAsVisit(Head(ss)) THEN 1 ELSE 0) + VisitCount(Tail(ss))

RECURSIVE TotalMinutes(_)
TotalMinutes(ss) ==
    IF ss = <<>> THEN 0 ELSE SessionMinutes(Head(ss)) + TotalMinutes(Tail(ss))

\* f"{total_hours:02d}:{remaining_minutes:02d}"
FormatHHMM(total_minutes) == Time(total_minutes \div 60, total_minutes % 60)

\* the returned dict, or the exception that leaves the function
Totals(visits, time_outside) ==
    [visits |-> visits, time_outside |-> time_outside, raised |-> FALSE]
TotalsRaised == [visits |-> 0, time_outside |-> NoneText, raised |-> TRUE]

calculate_daily_totals(sessions_for_day) ==
    IF sessions_for_day = <<>>
    THEN Totals(0, Time(0, 0))
    ELSE IF \E i \in DOMAIN sessions_for_day : IntRaises(sessions_for_day[i])
    THEN TotalsRaised
    ELSE Totals(VisitCount(sessions_for_day),
                FormatHHMM(TotalMinutes(sessions_for_day)))

----------------------------------------------------------------------------
(* Specification of one calculate_daily_totals call *)

MaxSessions == 3

TotalsDurations ==
    {DurH(1, 38), DurH(1, 40), DurMins(24, 59), DurMins(0, 30), DurS(36),
     NoneText}

\* sessions as session building leaves them: at least one time set
TotalsSessions ==
    {s \in {Session(TestDay, 1, x, e, d, None, NoneText) :
                x \in {NoneText, Time(6, 1)}, e \in {NoneText, Time(7, 39)},
                d \in TotalsDurations} :
        s.exit_time # NoneText \/ s.entry_time # NoneText}

SessionLists(S, n) == UNION {[1 .. k -> S] : k \in 0 .. n}

InitTotals ==
    /\ errors = <<>> /\ warnings = <<>> /\ state_issues = <<>>
    /\ confidence_issues = <<>>
    /\ pc = "call"
    /\ timestamp = NoneText
    /\ duration_str = NoneText
    /\ daily_data = <<>>
    /\ report_year = 0
    /\ sessions \in SessionLists(TotalsSessions, MaxSessions)
    /\ result = [visits |-> 0, time_outside |-> NoneText, raised |-> FALSE]
    /\ NoBatch /\ NoFiles
    /\ complete_table = <<>>

CalculateDailyTotals ==
    /\ pc = "call"
    /\ result' = calculate_daily_totals(sessions)
    /\ pc' = "done"
    /\ UNCHANGED <<complete_table, diagnostics, timestamp, duration_str, daily_data,
                   report_year, sessions, batch, files>>

NextTotals == CalculateDailyTotals

SpecTotals == InitTotals /\ [][NextTotals]_vars

\* C8: visits is the number of sessions with an exit_time; entry-only
\* sessions are not counted; the empty list gives 0 and "00:00".
C8_Visits ==
    pc = "done" =>
        /\ result.visits =
             Cardinality({i \in DOMAIN sessions : sessions[i].exit_time # NoneText})
        /\ sessions = <<>> =>
             (result.visits = 0 /\ result.time_outside = Time(0, 0))

C8_Witness ==
    /\ pc = "done" /\ Len(sessions) = 3 /\ result.visits = 2
    /\ \E i \in DOMAIN sessions :
          sessions[i].exit_time = NoneText /\ sessions[i].entry_time # NoneText

ExactSeconds(d) ==
    CASE d.kind = "h" -> d.a * 3600 + d.b * 60
      [] d.kind = "mins" -> d.a * 60 + d.b
      [] d.kind = "s" -> d.a
      [] OTHER -> 0

RECURSIVE ExactSecondsSum(_)
ExactSecondsSum(ss) ==
    IF ss = <<>> THEN 0
    ELSE ExactSeconds(Head(ss).duration) + ExactSecondsSum(Tail(ss))

\* C9: time_outside is the sum of all parsed durations, truncated to whole
\* minutes once, on the sum, and formatted as HH:MM.
C9_TimeOutsideIsTruncatedSum ==
    pc = "done" =>
        result.time_outside =
            Time((ExactSecondsSum(sessions) \div 60) \div 60,
                 (ExactSecondsSum(sessions) \div 60) % 60)

----------------------------------------------------------------------------
(* Date resolver *)

\* strptime %b
MonthNumber(mon) ==
    CASE mon = "Jan" -> 1 [] mon = "Feb" -> 2 [] mon = "Mar" -> 3
      [] mon = "Apr" -> 4 [] mon = "May" -> 5 [] mon = "Jun" -> 6
      [] mon = "Jul" -> 7 [] mon = "Aug" -> 8 [] mon = "Sep" -> 9
      [] mon = "Oct" -> 10 [] mon = "Nov" -> 11 [] mon = "Dec" -> 12
      [] OTHER -> 0

IsLeapYear(y) == (y % 4 = 0 /\ y % 100 # 0) \/ y % 400 = 0

DaysInMonth(y, m) ==
    CASE m \in {4, 6, 9, 11} -> 30
      [] m = 2 -> (IF IsLeapYear(y) THEN 29 ELSE 28)
      [] OTHER -> 31

\* report_year 0 stands for None
convert_date_str_to_full_date(date_str, year) ==
    IF date_str.kind # "dm" \/ year = 0 THEN NoDate
    ELSE LET m == MonthNumber(date_str.mon)
         IN  IF m # 0 /\ date_str.day >= 1 /\ date_str.day <= DaysInMonth(year, m)
             THEN FullDate(year, m, date_str.day)
             ELSE NoDate

parse_date_str_to_datetime(date_str, year) ==
    convert_date_str_to_full_date(date_str, year)

\* key=lambda d: parse_date_str_to_datetime(d, year) or datetime.min
DateSortKey(date_str, year) ==
    LET dt == parse_date_str_to_datetime(date_str, year)
    IN  IF dt.ok THEN dt.y * 10000 + dt.m * 100 + dt.d ELSE 10101

----------------------------------------------------------------------------
(* Per-day data *)

Single(ts, dur) ==
    [type |-> "single_timestamp", exit_time |-> NoneText,
     entry_time |-> NoneText, timestamp |-> ts, duration |-> dur]

Complete(x, e, dur) ==
    [type |-> "complete_session", exit_time |-> x, entry_time |-> e,
     timestamp |-> NoneText, duration |-> dur]

\* daily_data[date_str]; the dict is the sequence of its items in insertion order
Day(label, pairs, visits, total_time) ==
    [date_str |-> label, time_duration_pairs |-> pairs,
     daily_visits |-> visits, daily_total_time |-> total_time]

RECURSIVE InsertByDate(_, _, _)
InsertByDate(day, sorted, year) ==
    IF sorted = <<>> THEN <<day>>
    ELSE IF DateSortKey(sorted[Len(sorted)].date_str, year)
              <= DateSortKey(day.date_str, year)
         THEN Append(sorted, day)
         ELSE Append(InsertByDate(day, SubSeq(sorted, 1, Len(sorted) - 1), year),
                     sorted[Len(sorted)])

\* sorted(daily_data.keys(), key=...): stable
RECURSIVE SortedDays(_, _)
SortedDays(dd, year) ==
    IF dd = <<>> THEN <<>>
    ELSE InsertByDate(dd[Len(dd)], SortedDays(SubSeq(dd, 1, Len(dd) - 1), year), year)

----------------------------------------------------------------------------
(* Cross-midnight pairer *)

RECURSIVE DaySingles(_, _)
DaySingles(label, pairs) ==
    IF pairs = <<>> THEN <<>>
    ELSE (IF Head(pairs).type = "single_timestamp"
          THEN <<[date_str |-> label, timestamp |-> Head(pairs).timestamp,
                  duration |-> Head(pairs).duration]>>
          ELSE <<>>) \o DaySingles(label, Tail(pairs))

\* the list single_timestamps
RECURSIVE SingleTimestamps(_)
SingleTimestamps(days) ==
    IF days = <<>> THEN <<>>
    ELSE DaySingles(Head(days).date_str, Head(days).time_duration_pairs)
         \o SingleTimestamps(Tail(days))

\* today_mins > 20 * 60 and tomorrow_mins < 8 * 60
InOvernightWindow(today_mins, tomorrow_mins) ==
    today_mins > LATE_EVENING_MINUTES /\ tomorrow_mins < EARLY_MORNING_MINUTES

\* the conditions under which the loop records a cross-midnight pair
CrossMidnightDetected(today, tomorrow) ==
    LET today_mins == parse_timestamp_to_minutes(today.timestamp)
        tomorrow_mins == parse_timestamp_to_minutes(tomorrow.timestamp)
        today_duration == parse_duration_hours(today.duration)
        tomorrow_duration == parse_duration_hours(tomorrow.duration)
    IN  /\ TruthyNumber(today_mins) /\ TruthyNumber(tomorrow_mins)
        /\ InOvernightWindow(today_mins.v, tomorrow_mins.v)
        /\ TruthyNumber(today_duration) /\ TruthyNumber(tomorrow_duration)
        /\ ~today_duration.nan /\ ~tomorrow_duration.nan
        /\ WithinTolerance(today_duration.v, MINUTES_PER_DAY - today_mins.v)
        /\ WithinTolerance(tomorrow_duration.v, tomorrow_mins.v)

CrossIndices(st) ==
    {i \in 1 .. (Len(st) - 1) : CrossMidnightDetected(st[i], st[i + 1])}

\* f"{date_str}_{timestamp}"
CrossKey(date_str, ts) == <<date_str, ts>>

\* the indices whose iteration assigns cross_midnight_pairs[key]
KeyWriters(st, key) ==
    {i \in CrossIndices(st) :
        \/ CrossKey(st[i].date_str, st[i].timestamp) = key
        \/ CrossKey(st[i + 1].date_str, st[i + 1].timestamp) = key}

Max(S) == CHOOSE x \in S : \A y \in S : y <= x

CrossMidnightType_swapped(st, key) ==
    IF KeyWriters(st, key) = {} THEN ""
    ELSE LET i == Max(KeyWriters(st, key))
         IN  IF CrossKey(st[i + 1].date_str, st[i + 1].timestamp) = key
             THEN "exit" ELSE "entry"

\* cross_midnight_pairs.get(key), "" when the key is absent; a later
\* assignment overwrites an earlier one
CrossMidnightType(st, key) ==
    IF KeyWriters(st, key) = {} THEN ""
    ELSE LET i == Max(KeyWriters(st, key))
         IN  IF CrossKey(st[i + 1].date_str, st[i + 1].timestamp) = key
             THEN "entry" ELSE "exit"

RECURSIVE CrossNotesFrom(_, _, _)
CrossNotesFrom(st, i, file) ==
    IF i >= Len(st) THEN <<>>
    ELSE (IF CrossMidnightDetected(st[i], st[i + 1])
          THEN <<CrossMidnightNote(file, st[i].date_str, st[i].timestamp,
                                   st[i + 1].date_str, st[i + 1].timestamp)>>
          ELSE <<>>) \o CrossNotesFrom(st, i + 1, file)

----------------------------------------------------------------------------
(* Session building *)

\* the type of one single timestamp and the notes its classification appends
SingleType(day, pair, st, file) ==
    LET t == CrossMidnightType(st, CrossKey(day.date_str, pair.timestamp))
    IN  IF t # "" THEN Classified(t, <<>>)
        ELSE determine_single_timestamp_type(pair.timestamp, pair.duration,
                                             day.date_str, file)

PairSession_merged(day, pair, n, type) ==
    IF pair.type = "complete_session"
    THEN Session(day.date_str, n, pair.exit_time, pair.entry_time,
                 pair.duration, day.daily_visits, day.daily_total_time)
    ELSE Session(day.date_str, n, pair.timestamp, pair.timestamp, pair.duration,
                 day.daily_visits, day.daily_total_time)

\* the session appended for one pair
PairSession(day, pair, n, type) ==
    IF pair.type = "complete_session"
    THEN Session(day.date_str, n, pair.exit_time, pair.entry_time,
                 pair.duration, day.daily_visits, day.daily_total_time)
    ELSE IF type = "exit"
    THEN Session(day.date_str, n, pair.timestamp, NoneText, pair.duration,
                 day.daily_visits, day.daily_total_time)
    ELSE Session(day.date_str, n, NoneText, pair.timestamp, pair.duration,
                 day.daily_visits, day.daily_total_time)

\* the returned list and the entries appended to confidence_issues, or the
\* exception of calculate_daily_totals leaving the function
Built(ss, notes) == [sessions |-> ss, notes |-> notes, raised |-> FALSE]
BuildRaised(notes) == [sessions |-> <<>>, notes |-> notes, raised |-> TRUE]

NextSessionNumber_stuck(n) == n

\* session_number += 1
NextSessionNumber(n) == n + 1

\* for pair in day_data['time_duration_pairs'], from session_number n
RECURSIVE BuildPairs(_, _, _, _, _)
BuildPairs(day, pairs, n, st, file) ==
    IF pairs = <<>> THEN Built(<<>>, <<>>)
    ELSE LET pair == Head(pairs)
             c == IF pair.type = "single_timestamp"
                  THEN SingleType(day, pair, st, file)
                  ELSE Classified("", <<>>)
             rest == BuildPairs(day, Tail(pairs), NextSessionNumber(n), st, file)
         IN  Built(<<PairSession(day, pair, n, c.type)>> \o rest.sessions,
                   c.notes \o rest.notes)

\* for date_str in date_keys
RECURSIVE BuildDays(_, _, _)
BuildDays(days, st, file) ==
    IF days = <<>> THEN Built(<<>>, <<>>)
    ELSE LET d == BuildPairs(Head(days), Head(days).time_duration_pairs, 1, st, file)
             rest == BuildDays(Tail(days), st, file)
         IN  Built(d.sessions \o rest.sessions, d.notes \o rest.notes)

SessionsOfDate_all(ss, date_str) == ss

\* sessions_by_date[date_str]
SessionsOfDate(ss, date_str) == SelectSeq(ss, LAMBDA s : s.date_str = date_str)

WithCalculatedTotals_visits_only(ss) ==
    [i \in DOMAIN ss |->
        LET t == calculate_daily_totals(SessionsOfDate(ss, ss[i].date_str))
        IN  [ss[i] EXCEPT !.daily_total_visits_calculated = Some(t.visits)]]

\* lines 738-753: the calculated totals of its day on every session
WithCalculatedTotals(ss) ==
    [i \in DOMAIN ss |->
        LET t == calculate_daily_totals(SessionsOfDate(ss, ss[i].date_str))
        IN  [ss[i] EXCEPT !.daily_total_visits_calculated = Some(t.visits),
                          !.daily_total_time_outside_calculated = t.time_outside]]

\* report_year or 2024
DEFAULT_YEAR == 2024

\* lines 738-755: the totals of each day written onto the sessions built so
\* far, unless calculate_daily_totals raises for one of the days
TotalsWritten(b, notes) ==
    IF \E i \in DOMAIN b.sessions :
          calculate_daily_totals(
              SessionsOfDate(b.sessions, b.sessions[i].date_str)).raised
    THEN BuildRaised(notes)
    ELSE Built(WithCalculatedTotals(b.sessions), notes)

\* returns the sessions and the entries appended to confidence_issues; the
\* sessions list b is built once and then read
build_sessions_with_enhanced_validation(dd, pdf_filename, year) ==
    LET date_keys == SortedDays(dd, IF year = 0 THEN DEFAULT_YEAR ELSE year)
        single_timestamps == SingleTimestamps(date_keys)
        cross_notes == CrossNotesFrom(single_timestamps, 1, pdf_filename)
    IN  CHOOSE r \in
            {TotalsWritten(b, cross_notes \o b.notes) :
                b \in {BuildDays(date_keys, single_timestamps, pdf_filename)}} :
            TRUE

----------------------------------------------------------------------------
(* Validation *)

\* session['exit_time'] and session['entry_time']
IsCompleteVisit(session) ==
    Truthy(session.exit_time) /\ Truthy(session.entry_time)

\* daily_session_counts.get(date_str, 0)
ExtractedCount(ss, date_str) ==
    Len(SelectSeq(ss, LAMBDA s : s.date_str = date_str /\ IsCompleteVisit(s)))

SIGNIFICANT_MISMATCH_THRESHOLD == 2
MAX_VISIT_COUNT_RATIO == 2
MINOR_MISMATCH_THRESHOLD == 1

MismatchNote(k, file, date_str, extracted, reported) ==
    Note(k, file, date_str, NoneText, NoneText, date_str, NoneText,
         extracted, reported)

IsSignificant(extracted_count, reported_count) ==
    \/ Abs(extracted_count - reported_count) > SIGNIFICANT_MISMATCH_THRESHOLD
    \/ /\ reported_count > 0
       /\ extracted_count > reported_count * MAX_VISIT_COUNT_RATIO

IsMinor(extracted_count, reported_count) ==
    /\ ~IsSignificant(extracted_count, reported_count)
    /\ Abs(extracted_count - reported_count) > MINOR_MISMATCH_THRESHOLD

\* the entries validate_sessions_with_tolerance appends, day by day
RECURSIVE ValidationNotes(_, _, _, _)
ValidationNotes(ss, dd, file, k) ==
    IF dd = <<>> THEN <<>>
    ELSE LET day == Head(dd)
             extracted_count == ExtractedCount(ss, day.date_str)
             hit == /\ day.daily_visits.ok
                    /\ IF k = "significant"
                       THEN IsSignificant(extracted_count, day.daily_visits.v)
                       ELSE IsMinor(extracted_count, day.daily_visits.v)
         IN  (IF hit
              THEN <<MismatchNote(k, file, day.date_str, extracted_count,
                                  day.daily_visits.v)>>
              ELSE <<>>) \o ValidationNotes(ss, Tail(dd), file, k)

validate_sessions_with_tolerance_pruning(ss, dd, pdf_filename) ==
    [sessions |-> SelectSeq(ss, IsCompleteVisit), daily_data |-> dd,
     state_issues |-> ValidationNotes(ss, dd, pdf_filename, "significant"),
     warnings |-> ValidationNotes(ss, dd, pdf_filename, "minor")]

\* the two mutable arguments as the call leaves them, and the entries it
\* appends to self.state_issues and self.warnings
validate_sessions_with_tolerance(ss, dd, pdf_filename) ==
    [sessions |-> ss, daily_data |-> dd,
     state_issues |-> ValidationNotes(ss, dd, pdf_filename, "significant"),
     warnings |-> ValidationNotes(ss, dd, pdf_filename, "minor")]

----------------------------------------------------------------------------
(* process_pdf, from the extracted daily data on *)

WithDateFull(ss, year) ==
    [i \in DOMAIN ss |->
        IF year # 0
        THEN [ss[i] EXCEPT !.date_full =
                 convert_date_str_to_full_date(ss[i].date_str, year)]
        ELSE ss[i]]

\* report_info['report_date_range'], from the first and last dict key
ReportDateRange(dd, year) ==
    LET first == convert_date_str_to_full_date(dd[1].date_str, year)
        last == convert_date_str_to_full_date(dd[Len(dd)].date_str, year)
    IN  IF year # 0 /\ first.ok /\ last.ok
        THEN [ok |-> TRUE, start |-> first, end |-> last]
        ELSE [ok |-> FALSE, start |-> NoDate, end |-> NoDate]

NoRange == [ok |-> FALSE, start |-> NoDate, end |-> NoDate]

WarningNote(k, file) ==
    Note(k, file, JunkLabel, NoneText, NoneText, JunkLabel, NoneText, 0, 0)

----------------------------------------------------------------------------
(* Reports *)

MaxPairs == 2
MaxCountPairs == 4
MaxReported == 4

PairLists(S, n) == UNION {[1 .. k -> S] : k \in 0 .. n}

Feb5 == Label(5, "Feb")
Feb6 == Label(6, "Feb")
Dec30 == Label(30, "Dec")
Dec31 == Label(31, "Dec")
Jan1 == Label(1, "Jan")
Jan2 == Label(2, "Jan")

\* evening exits, morning entries and one complete session
OvernightPairs ==
    {Single(Time(20, 0), DurH(4, 0)), Single(Time(23, 10), DurH(0, 50)),
     Single(Time(23, 50), DurH(0, 0)), Single(Time(0, 0), DurH(0, 0)),
     Single(Time(5, 0), DurH(5, 0)), Single(Time(14, 0), DurH(1, 0)),
     Complete(Time(6, 1), Time(7, 39), DurH(1, 38))}

\* two consecutive days of one report
OvernightReports ==
    {<<Day(Feb5, p1, None, NoneText), Day(Feb6, p2, None, NoneText)>> :
        p1 \in PairLists(OvernightPairs, MaxPairs),
        p2 \in PairLists(OvernightPairs, MaxPairs)}

\* a complete session, a morning exit and an afternoon entry
CountPairs ==
    {Complete(Time(6, 1), Time(7, 39), DurH(1, 38)),
     Single(Time(8, 0), DurH(1, 0)), Single(Time(14, 0), DurH(1, 0))}

ReportedCounts == {None} \cup {Some(n) : n \in 0 .. MaxReported}

\* one day with a reported total
CountReports ==
    {<<Day(Feb6, p, v, DurH(1, 38))>> :
        p \in PairLists(CountPairs, MaxCountPairs), v \in ReportedCounts}

LabelRuns ==
    {<<Dec30, Dec31, Jan1>>, <<Dec30, Dec31>>, <<Dec31, Jan1>>, <<Jan1, Jan2>>,
     <<Dec30, Dec31, Jan1, Jan2>>}

CrossYearPairLists ==
    {<<Complete(Time(6, 1), Time(7, 39), DurH(1, 38))>>,
     <<Single(Time(5, 0), DurH(5, 0)), Single(Time(23, 10), DurH(0, 50))>>,
     <<>>}

\* the days of a report around the turn of the year
CrossYearReports ==
    {[i \in DOMAIN ls |-> Day(ls[i], p, None, NoneText)] :
        ls \in LabelRuns, p \in CrossYearPairLists}

\* cells the tables of a report can hold besides well-formed ones: a
\* timestamp cell is any non-empty text, a duration cell any text or none
MalformedPairs ==
    {Single(JunkText, DurH(1, 0)), Single(Time(25, 0), DurH(1, 0)),
     Single(Time(14, 0), NoneText), Single(Time(23, 10), JunkText),
     Single(Time(14, 0), DurNaN),
     Complete(Time(6, 1), Time(7, 39), EmptyText)}

\* one day, or one day followed by a day whose header cell is no date
MalformedReports ==
    {<<Day(Feb6, p, None, NoneText)>> :
        p \in PairLists(MalformedPairs, MaxPairs)}
    \cup {<<Day(Feb6, p, Some(1), DurH(1, 0)), Day(JunkLabel, q, None, NoneText)>> :
        p \in PairLists(MalformedPairs, MaxPairs),
        q \in PairLists(MalformedPairs, 1)}

\* two observations that carry the same timestamp text with different
\* durations: 23:10 five hours after an exit or 50 minutes before midnight,
\* 05:00 five hours after midnight or one hour after an exit
RepeatPairs ==
    {Single(Time(23, 10), DurH(5, 0)), Single(Time(23, 10), DurH(0, 50)),
     Single(Time(5, 0), DurH(5, 0)), Single(Time(5, 0), DurH(1, 0))}

\* two consecutive days whose tables repeat a timestamp text
RepeatReports ==
    {<<Day(Feb5, p1, None, NoneText), Day(Feb6, p2, None, NoneText)>> :
        p1 \in PairLists(RepeatPairs, MaxPairs),
        p2 \in PairLists(RepeatPairs, MaxPairs)}

\* the year of the report: 2025 or unknown where the days cross the turn of
\* the year, 2024 otherwise
CrossYearYears == {0, 2025}

----------------------------------------------------------------------------
(* Specification of process_pdf on one report *)

\* the returned dict, None, or the exception that leaves process_pdf
Returned(range) ==
    [returned |-> TRUE, raised |-> FALSE, report_date_range |-> range]
ReturnedNone ==
    [returned |-> FALSE, raised |-> FALSE, report_date_range |-> NoRange]
Raised == [returned |-> FALSE, raised |-> TRUE, report_date_range |-> NoRange]

InitPdf ==
    /\ errors = <<>> /\ warnings = <<>> /\ state_issues = <<>>
    /\ confidence_issues = <<>>
    /\ pc = "call"
    /\ timestamp = NoneText
    /\ duration_str = NoneText
    /\ \/ /\ \/ daily_data \in OvernightReports
             \/ daily_data \in CountReports
             \/ daily_data \in MalformedReports
             \/ daily_data \in RepeatReports
             \/ daily_data = <<>>
          /\ report_year = 2024
       \/ /\ daily_data \in CrossYearReports
          /\ report_year \in CrossYearYears
    /\ sessions = <<>>
    /\ result = ReturnedNone
    /\ NoBatch /\ NoFiles
    /\ complete_table = <<>>

ProcessPdf ==
    /\ pc = "call"
    /\ IF daily_data = <<>>
       THEN /\ warnings' = Append(warnings, WarningNote("no_time_data", TestFile))
            /\ sessions' = <<>>
            /\ result' = ReturnedNone
            /\ UNCHANGED confidence_issues
       ELSE LET b == build_sessions_with_enhanced_validation(
                         daily_data, TestFile, report_year)
            IN  /\ confidence_issues' = confidence_issues \o b.notes
                /\ IF b.raised
                   THEN /\ sessions' = <<>>
                        /\ result' = Raised
                        /\ UNCHANGED warnings
                   ELSE IF b.sessions = <<>>
                   THEN /\ warnings' =
                              Append(warnings, WarningNote("no_sessions", TestFile))
                        /\ sessions' = <<>>
                        /\ result' = ReturnedNone
                   ELSE /\ sessions' = WithDateFull(b.sessions, report_year)
                        /\ result' = Returned(ReportDateRange(daily_data, report_year))
                        /\ UNCHANGED warnings
    /\ pc' = "done"
    /\ UNCHANGED <<complete_table, errors, state_issues, timestamp, duration_str, daily_data,
                   report_year, batch, files>>

NextPdf == ProcessPdf

SpecPdf == InitPdf /\ [][NextPdf]_vars

\* validate_sessions_with_tolerance on the sessions process_pdf returned
Validate ==
    /\ pc = "done"
    /\ result.returned
    /\ LET v == validate_sessions_with_tolerance(sessions, daily_data, TestFile)
       IN  /\ state_issues' = state_issues \o v.state_issues
           /\ warnings' = warnings \o v.warnings
           /\ sessions' = v.sessions
           /\ daily_data' = v.daily_data
    /\ pc' = "validated"
    /\ UNCHANGED <<complete_table, errors, confidence_issues, timestamp, duration_str,
                   report_year, result, batch, files>>

NextValidate == ProcessPdf \/ Validate

SpecValidate == InitPdf /\ [][NextValidate]_vars

----------------------------------------------------------------------------
(* Ordering and output of a batch of results *)

\* one process_pdf result: report_info['filename'],
\* report_info['report_date_range'] and session_data
Result(filename, range, session_data) ==
    [filename |-> filename, report_date_range |-> range,
     session_data |-> session_data]

Range(first, last) == [ok |-> TRUE, start |-> first, end |-> last]

\* filenames in the order of Python's string comparison
FileNames == <<"a.pdf", "b.pdf", "c.pdf">>
FileRank(filename) == CHOOSE n \in DOMAIN FileNames : FileNames[n] = filename

\* the ordinal of a calendar date, as datetime compares
DateNumber(date) == date.y * 10000 + date.m * 100 + date.d

\* get_sort_key: a datetime for a resolved range, else the filename
SortKey(r) ==
    IF r.report_date_range.ok
    THEN [type |-> "datetime", date |-> DateNumber(r.report_date_range.start),
          rank |-> 0]
    ELSE [type |-> "str", date |-> 0, rank |-> FileRank(r.filename)]

\* k2 < k1 is false, for two keys of one type
NotAfter(k1, k2) ==
    IF k1.type = "datetime" THEN k1.date <= k2.date ELSE k1.rank <= k2.rank

RECURSIVE InsertByKey(_, _)
InsertByKey(r, sorted) ==
    IF sorted = <<>> THEN <<r>>
    ELSE IF NotAfter(SortKey(sorted[Len(sorted)]), SortKey(r))
         THEN Append(sorted, r)
         ELSE Append(InsertByKey(r, SubSeq(sorted, 1, Len(sorted) - 1)),
                     sorted[Len(sorted)])

\* sorted(results, key=get_sort_key) on keys of one type: stable
RECURSIVE SortedByKey(_)
SortedByKey(rs) ==
    IF rs = <<>> THEN <<>>
    ELSE InsertByKey(rs[Len(rs)], SortedByKey(SubSeq(rs, 1, Len(rs) - 1)))

\* '<' between a datetime and a str raises TypeError, and sorting must
\* compare two keys of different types when both occur
MixedKeys(rs) ==
    \E i, j \in DOMAIN rs : SortKey(rs[i]).type # SortKey(rs[j]).type

SortedResult(rs) == [raised |-> FALSE, value |-> rs]
SortRaised == [raised |-> TRUE, value |-> <<>>]

sort_results_chronologically(rs) ==
    IF MixedKeys(rs) THEN SortRaised ELSE SortedResult(SortedByKey(rs))

\* one flat_record: the columns that identify and order the row
FlatRecord(r, session) ==
    [filename |-> r.filename, date_str |-> session.date_str,
     date_full |-> session.date_full,
     session_number |-> session.session_number,
     exit_time |-> session.exit_time, entry_time |-> session.entry_time]

\* for session in result['session_data']: flattened.append(flat_record)
FlatRecords(r) ==
    [k \in DOMAIN r.session_data |-> FlatRecord(r, r.session_data[k])]

RECURSIVE flatten_data_for_csv(_)
flatten_data_for_csv(rs) ==
    IF rs = <<>> THEN <<>>
    ELSE FlatRecords(Head(rs)) \o flatten_data_for_csv(Tail(rs))

----------------------------------------------------------------------------
(* Batches *)

MaxBatch == 2

\* a session row as the tests of save_to_csv give it
DatedSession(label, date) ==
    [Session(label, 1, Time(6, 0), Time(8, 0), DurH(2, 0), Some(1), DurH(2, 0))
        EXCEPT !.daily_total_visits_calculated = Some(1),
               !.daily_total_time_outside_calculated = Time(2, 0),
               !.date_full = date]

D1230 == DatedSession(Dec30, FullDate(2024, 12, 30))
D1231 == DatedSession(Dec31, FullDate(2024, 12, 31))
D0101 == DatedSession(Jan1, FullDate(2025, 1, 1))
D0102 == DatedSession(Jan2, FullDate(2025, 1, 2))

\* session_data in and out of date order, and without date_full
SessionDatas ==
    {<<D0102, D1230, D0101, D1231>>, <<D1230, D1231, D0101, D0102>>,
     <<D1231, D1230>>, <<D0101>>, <<DatedSession(Jan1, NoDate)>>}

BatchRanges ==
    {NoRange,
     Range(FullDate(2024, 12, 30), FullDate(2025, 1, 5)),
     Range(FullDate(2024, 6, 10), FullDate(2024, 6, 20))}

\* k distinct files of the directory, in any order
FileOrders(k) ==
    {fs \in [1 .. k -> DOMAIN FileNames] :
        \A i, j \in 1 .. k : i # j => fs[i] # fs[j]}

\* the results of k distinct files, in any order
Batches(k) ==
    {[i \in 1 .. k |-> Result(FileNames[fs[i]], c[i][1], c[i][2])] :
        fs \in FileOrders(k), c \in [1 .. k -> BatchRanges \X SessionDatas]}

InitBatch ==
    /\ errors = <<>> /\ warnings = <<>> /\ state_issues = <<>>
    /\ confidence_issues = <<>>
    /\ pc = "call"
    /\ timestamp = NoneText
    /\ duration_str = NoneText
    /\ daily_data = <<>>
    /\ report_year = 0
    /\ sessions = <<>>
    /\ result = SortedResult(<<>>)
    /\ \E k \in 0 .. MaxBatch : results \in Batches(k)
    /\ csv = <<>>
    /\ NoFiles
    /\ complete_table = <<>>

\* results = self.sort_results_chronologically(results)
SortResults ==
    /\ pc = "call"
    /\ result' = sort_results_chronologically(results)
    /\ pc' = "sorted"
    /\ UNCHANGED <<complete_table, diagnostics, timestamp, duration_str, daily_data,
                   report_year, sessions, batch, files>>

\* save_to_csv on the results as given, or as process_directory returned them
SaveToCsv ==
    /\ \/ pc = "call" /\ csv' = flatten_data_for_csv(results)
       \/ pc = "sorted" /\ ~result.raised
            /\ csv' = flatten_data_for_csv(result.value)
    /\ pc' = "saved"
    /\ UNCHANGED <<complete_table, diagnostics, timestamp, duration_str, daily_data,
                   report_year, sessions, result, results, files>>

NextBatch == SortResults \/ SaveToCsv

SpecBatch == InitBatch /\ [][NextBatch]_vars

Resolved(r) == r.report_date_range.ok

\* the two lists hold the same results, each as often
SameResults(a, b) ==
    /\ Len(a) = Len(b)
    /\ \A r \in {a[i] : i \in DOMAIN a} :
          Cardinality({i \in DOMAIN a : a[i] = r})
              = Cardinality({i \in DOMAIN b : b[i] = r})

\* C14: the batch comes back ordered by the start of the resolved range, the
\* reports without one after all others and by filename among themselves,
\* also when the batch mixes the two kinds.
C14_ChronologicalReports ==
    pc = "sorted" =>
        /\ ~result.raised
        /\ SameResults(result.value, results)
        /\ \A i, j \in DOMAIN result.value :
              i < j =>
                  LET a == result.value[i]
                      b == result.value[j]
                  IN  /\ Resolved(b) => Resolved(a)
                      /\ (Resolved(a) /\ Resolved(b)) =>
                            DateNumber(a.report_date_range.start)
                                <= DateNumber(b.report_date_range.start)
                      /\ (~Resolved(a) /\ ~Resolved(b)) =>
                            FileRank(a.filename) <= FileRank(b.filename)

\* C15: the rows written by save_to_csv are in non-decreasing order of
\* date_full, whatever the order of the sessions inside the results.
C15_RowsInDateOrder ==
    pc = "saved" =>
        \A i, j \in DOMAIN csv :
            (i < j /\ csv[i].date_full.ok /\ csv[j].date_full.ok) =>
                DateNumber(csv[i].date_full) <= DateNumber(csv[j].date_full)

----------------------------------------------------------------------------
(* Malformed input: texts and day structures of any content *)

\* a label that is None
NoneLabel == [kind |-> "none", day |-> 0, mon |-> ""]

RobustTimestamps ==
    {NoneText, EmptyText, JunkText, Time(25, 0), Time(0, 0), Time(23, 10)}

RobustDurations ==
    {NoneText, EmptyText, JunkText, DurNaN, DurH(0, 50), DurH(13, 0), DurS(0)}

RobustLabels == {NoneLabel, JunkLabel, Feb6, Label(30, "Feb")}

RobustPairs ==
    {Single(NoneText, NoneText), Single(EmptyText, JunkText),
     Single(Time(25, 0), DurH(1, 0)), Single(Time(23, 10), DurH(0, 50)),
     Single(Time(0, 0), DurS(0)), Single(Time(14, 0), DurNaN),
     Complete(NoneText, NoneText, NoneText),
     Complete(JunkText, Time(7, 39), JunkText)}

RobustReports ==
    {<<Day(l, p, None, NoneText)>> :
        l \in RobustLabels, p \in PairLists(RobustPairs, MaxPairs)}
    \cup {<<Day(NoneLabel, p, None, NoneText), Day(Feb6, q, Some(1), JunkText)>> :
        p \in PairLists(RobustPairs, 1), q \in PairLists(RobustPairs, 1)}

\* report years: none, a common year, a leap year
RobustYears == {0, 2023, 2024}

InitRobust ==
    /\ errors = <<>> /\ warnings = <<>> /\ state_issues = <<>>
    /\ confidence_issues = <<>>
    /\ pc = "call"
    /\ \/ /\ timestamp \in RobustTimestamps
          /\ duration_str \in RobustDurations
          /\ daily_data = <<>> /\ report_year = 0
       \/ /\ timestamp = NoneText /\ duration_str = NoneText
          /\ daily_data \in RobustReports
          /\ report_year \in RobustYears
    /\ sessions = <<>>
    /\ result = ""
    /\ NoBatch /\ NoFiles
    /\ complete_table = <<>>

\* build_sessions_with_enhanced_validation called on the day structure
BuildSessions ==
    /\ pc = "call"
    /\ daily_data # <<>>
    /\ LET b == build_sessions_with_enhanced_validation(
                    daily_data, TestFile, report_year)
       IN  /\ confidence_issues' = confidence_issues \o b.notes
           /\ sessions' = b.sessions
           /\ result' = IF b.raised THEN Raised ELSE Returned(NoRange)
    /\ pc' = "built"
    /\ UNCHANGED <<complete_table, errors, warnings, state_issues, timestamp, duration_str,
                   daily_data, report_year, batch, files>>

NextRobust == Classify \/ BuildSessions

SpecRobust == InitRobust /\ [][NextRobust]_vars

----------------------------------------------------------------------------
(* Dataset merge (.github/scripts/merge_datasets.py) *)

\* one CSV row as pd.read_csv gives it: the four key columns and the file it
\* came from; an empty cell reads as NaN (NoDate, NoneText)
Row(filename, date_full, n, exit, entry) ==
    [filename |-> filename, date_full |-> date_full, session_number |-> n,
     exit_time |-> exit, entry_time |-> entry]

\* astype(str) of a cell: NaN becomes the text 'nan'
NanStr == Text("str_nan", 0, 0)
AsStr(cell) == IF cell.kind = "none" THEN NanStr ELSE cell

create_session_key_no_entry(row) ==
    <<row.date_full, "_", row.session_number, "_", AsStr(row.exit_time)>>

\* date + '_' + session + '_' + exit + '_' + entry, for one row
create_session_key(row) ==
    <<row.date_full, "_", row.session_number, "_", AsStr(row.exit_time), "_",
      AsStr(row.entry_time)>>

\* master_df['session_key']
SessionKeys(df) == {create_session_key(df[i]) : i \in DOMAIN df}

\* new_df[new_df['session_key'].isin(master_df['session_key'])]
Duplicates(new_df, master_df) ==
    SelectSeq(new_df, LAMBDA row :
        create_session_key(row) \in SessionKeys(master_df))

UniqueNew_all(new_df, master_df) == new_df

\* new_df[~new_df['session_key'].isin(master_df['session_key'])]
UniqueNew(new_df, master_df) ==
    SelectSeq(new_df, LAMBDA row :
        create_session_key(row) \notin SessionKeys(master_df))

\* main(): the master dataset written and the counts reported
merge_datasets(master_df, new_df) ==
    IF Len(new_df) = 0
    THEN [master |-> master_df,
          report |-> DuplicateReport(0, 0, 0, Len(master_df))]
    ELSE IF Len(master_df) > 0
    THEN LET duplicates == Duplicates(new_df, master_df)
             unique_new == UniqueNew(new_df, master_df)
             final == IF Len(unique_new) > 0 THEN master_df \o unique_new
                      ELSE master_df
         IN  [master |-> final,
              report |-> DuplicateReport(Len(new_df), Len(duplicates),
                                         Len(unique_new), Len(final))]
    ELSE [master |-> new_df,
          report |-> DuplicateReport(Len(new_df), 0, Len(new_df), Len(new_df))]

MaxRows == 2

Feb05 == FullDate(2024, 2, 5)
Feb06 == FullDate(2024, 2, 6)

\* rows of two reports: equal keys from different files, keys that differ in
\* one column only, empty cells
DatasetRows ==
    {Row("a.pdf", Feb05, 1, Time(6, 1), Time(7, 39)),
     Row("b.pdf", Feb05, 1, Time(6, 1), Time(7, 39)),
     Row("b.pdf", Feb05, 1, Time(6, 1), NoneText),
     Row("a.pdf", Feb05, 2, Time(18, 12), NoneText),
     Row("b.pdf", Feb06, 1, NoneText, Time(7, 38)),
     Row("b.pdf", NoDate, 1, Time(6, 1), Time(7, 39))}

Datasets == UNION {[1 .. k -> DatasetRows] : k \in 0 .. MaxRows}

InitMerge ==
    /\ errors = <<>> /\ warnings = <<>> /\ state_issues = <<>>
    /\ confidence_issues = <<>>
    /\ pc = "call"
    /\ timestamp = NoneText
    /\ duration_str = NoneText
    /\ daily_data = <<>>
    /\ report_year = 0
    /\ sessions = <<>>
    /\ result = 0
    /\ NoBatch
    /\ complete_table = <<>>
    /\ master_dataset \in Datasets
    /\ processed_data \in Datasets
    /\ duplicate_report = NoDuplicateReport

MergeDatasets ==
    /\ pc = "call"
    /\ LET m == merge_datasets(master_dataset, processed_data)
       IN  /\ master_dataset' = m.master
           /\ duplicate_report' = m.report
    /\ result' = 0
    /\ pc' = "merged"
    /\ UNCHANGED <<complete_table, diagnostics, timestamp, duration_str, daily_data,
                   report_year, sessions, batch, processed_data>>

NextMerge == MergeDatasets

SpecMerge == InitMerge /\ [][NextMerge]_vars

\* the workflow runs main() again on the same processed_data.csv and the
\* master_dataset.csv the first run wrote
MergeAgain ==
    /\ pc = "merged"
    /\ LET m == merge_datasets(master_dataset, processed_data)
       IN  /\ master_dataset' = m.master
           /\ duplicate_report' = m.report
    /\ result' = 0
    /\ pc' = "remerged"
    /\ UNCHANGED <<complete_table, diagnostics, timestamp, duration_str, daily_data,
                   report_year, sessions, batch, processed_data>>

NextRemerge == MergeDatasets \/ MergeAgain

SpecRemerge == InitMerge /\ [][NextRemerge]_vars

\* the composite key of the claim: date, session number, exit, entry
CompositeKey(row) ==
    <<row.date_full, row.session_number, row.exit_time, row.entry_time>>

OccursIn(row, df) ==
    \E i \in DOMAIN df : CompositeKey(df[i]) = CompositeKey(row)

\* C18: merging non-empty new data into a non-empty master leaves the old
\* rows in place and appends exactly the new rows whose composite key is not
\* in the old master; duplicates + unique = number of new rows.
C18_MergeAppendsUnique ==
    [][(pc = "call" /\ pc' = "merged"
        /\ master_dataset # <<>> /\ processed_data # <<>>) =>
          /\ master_dataset' = master_dataset
                \o SelectSeq(processed_data,
                             LAMBDA row : ~OccursIn(row, master_dataset))
          /\ duplicate_report'.written
          /\ duplicate_report'.processed = Len(processed_data)
          /\ duplicate_report'.duplicates + duplicate_report'.unique
                = Len(processed_data)
          /\ duplicate_report'.unique
                = Len(master_dataset') - Len(master_dataset)]_vars

C18_Witness ==
    /\ pc = "merged"
    /\ Len(processed_data) = 2 /\ Len(master_dataset) = 3
    /\ duplicate_report.duplicates = 1 /\ duplicate_report.unique = 1
    /\ master_dataset[3] = processed_data[2]
    /\ master_dataset[3].entry_time = NoneText

----------------------------------------------------------------------------
(* Gap detection between the files of a directory *)

\* a file of the directory: its name and the date the two filename patterns
\* and strptime read from it, NoDate when none does
GapFile(name, date) == [name |-> name, date |-> date]

\* sorted(pdf_files): the files of the directory in the order of their names
GapFiles ==
    <<GapFile("01-02-2024.pdf", FullDate(2024, 2, 1)),
      GapFile("01-03-2024.pdf", FullDate(2024, 3, 1)),
      GapFile("10-02-2024.pdf", FullDate(2024, 2, 10)),
      GapFile("report.pdf", NoDate)>>

\* gap_days > 14
MAX_GAP_DAYS == 14

\* the number of the day, as the difference of two datetimes counts
RECURSIVE DaysBeforeMonth(_, _)
DaysBeforeMonth(y, m) ==
    IF m <= 1 THEN 0 ELSE DaysInMonth(y, m - 1) + DaysBeforeMonth(y, m - 1)

DayOrdinal(date) ==
    (date.y - 2024) * 365
        + Cardinality({z \in 2024 .. (date.y - 1) : IsLeapYear(z)})
        + DaysBeforeMonth(date.y, date.m) + date.d

\* the tuples (date_obj, filename) compare by date, then by name
DateNotAfter(i, j) ==
    \/ DayOrdinal(GapFiles[i].date) < DayOrdinal(GapFiles[j].date)
    \/ DayOrdinal(GapFiles[i].date) = DayOrdinal(GapFiles[j].date) /\ i <= j

\* dates.sort(), as the sequence of the indices of the files
RECURSIVE DatesSorted(_)
DatesSorted(S) ==
    IF S = {} THEN <<>>
    ELSE LET first == CHOOSE i \in S : \A j \in S : DateNotAfter(i, j)
         IN  <<first>> \o DatesSorted(S \ {first})

\* f"Large gap detected: {gap_days} days between {prev_file} and {current_file}. ..."
GapNote(gap_days, prev_file, current_file) ==
    [Note("large_gap", prev_file, JunkLabel, NoneText, NoneText, JunkLabel,
          NoneText, gap_days, 0) EXCEPT !.file2 = current_file]

\* for i in range(1, len(dates))
RECURSIVE GapNotesFrom(_, _)
GapNotesFrom(dates, i) ==
    IF i > Len(dates) THEN <<>>
    ELSE LET gap_days == DayOrdinal(GapFiles[dates[i]].date)
                             - DayOrdinal(GapFiles[dates[i - 1]].date)
         IN  (IF gap_days > MAX_GAP_DAYS
              THEN <<GapNote(gap_days, GapFiles[dates[i - 1]].name,
                             GapFiles[dates[i]].name)>>
              ELSE <<>>) \o GapNotesFrom(dates, i + 1)

\* the entries detect_potential_gaps appends to self.warnings for the files
\* with the indices in S
detect_potential_gaps(S) ==
    LET dated == {i \in S : GapFiles[i].date.ok}
    IN  IF Cardinality(S) < 2 THEN <<>>
        ELSE IF Cardinality(dated) < 2
        THEN <<WarningNote("no_filename_dates", "")>>
        ELSE GapNotesFrom(DatesSorted(dated), 2)

----------------------------------------------------------------------------
(* Specification of one extractor used for a sequence of operations *)

MaxDiagnostics == 2

DiagnosticsCount ==
    Len(errors) + Len(warnings) + Len(state_issues) + Len(confidence_issues)

EngineTimestamps == {Time(5, 0), Time(23, 10)}
EngineDurations == {DurH(5, 0), DurH(1, 0)}
EngineLabels == {Feb5, Feb6}
EngineFiles == {"a.pdf", "b.pdf"}

\* an overnight pair, a day whose reported count is far off, a day without
\* pairs, a day whose duration text is "nan h", and no data
EngineReports ==
    {<<Day(Feb5, <<Single(Time(23, 10), DurH(0, 50))>>, None, NoneText),
       Day(Feb6, <<Single(Time(5, 0), DurH(5, 0))>>, None, NoneText)>>,
     <<Day(Feb6, <<Complete(Time(6, 1), Time(7, 39), DurH(1, 38)),
                   Single(Time(5, 0), DurH(1, 0))>>, Some(4), DurH(1, 38))>>,
     <<Day(Feb6, <<>>, None, NoneText)>>,
     <<Day(Feb6, <<Single(Time(14, 0), DurNaN)>>, None, NoneText)>>,
     <<>>}

EngineBatches ==
    {<<Result("b.pdf", NoRange, <<D0101>>),
       Result("a.pdf", Range(FullDate(2024, 12, 30), FullDate(2025, 1, 5)),
              <<D1230, D1231>>)>>}

\* directories, as the sets of the indices of their files: a gap of 29 days,
\* a gap of 9 days, one dated file of two, a single file
EngineDirectories == {{1, 2}, {1, 3}, {3, 4}, {1}}

InitEngine ==
    /\ errors = <<>> /\ warnings = <<>> /\ state_issues = <<>>
    /\ confidence_issues = <<>>
    /\ pc = "ready"
    /\ timestamp = NoneText
    /\ duration_str = NoneText
    /\ daily_data = <<>>
    /\ report_year = 2024
    /\ sessions = <<>>
    /\ result = ""
    /\ NoBatch /\ NoFiles
    /\ complete_table = <<>>

\* determine_single_timestamp_type, called for any day of any file
EngineClassify ==
    /\ DiagnosticsCount < MaxDiagnostics
    /\ \E ts \in EngineTimestamps, dur \in EngineDurations,
          date_str \in EngineLabels, pdf_filename \in EngineFiles :
          LET c == determine_single_timestamp_type(ts, dur, date_str, pdf_filename)
          IN  /\ timestamp' = ts
              /\ duration_str' = dur
              /\ result' = c.type
              /\ confidence_issues' = confidence_issues \o c.notes
    /\ pc' = "classified"
    /\ UNCHANGED <<complete_table, errors, warnings, state_issues, daily_data, report_year,
                   sessions, batch, files>>

\* process_pdf, from the extracted daily data on
EngineProcessPdf ==
    /\ DiagnosticsCount < MaxDiagnostics
    /\ \E dd \in EngineReports :
          /\ daily_data' = dd
          /\ IF dd = <<>>
             THEN /\ warnings' =
                        Append(warnings, WarningNote("no_time_data", TestFile))
                  /\ sessions' = <<>>
                  /\ result' = ReturnedNone
                  /\ UNCHANGED confidence_issues
             ELSE LET b == build_sessions_with_enhanced_validation(
                               dd, TestFile, report_year)
                  IN  /\ confidence_issues' = confidence_issues \o b.notes
                      /\ IF b.raised
                         THEN /\ sessions' = <<>>
                              /\ result' = Raised
                              /\ UNCHANGED warnings
                         ELSE IF b.sessions = <<>>
                         THEN /\ warnings' =
                                    Append(warnings,
                                           WarningNote("no_sessions", TestFile))
                              /\ sessions' = <<>>
                              /\ result' = ReturnedNone
                         ELSE /\ sessions' = WithDateFull(b.sessions, report_year)
                              /\ result' =
                                    Returned(ReportDateRange(dd, report_year))
                              /\ UNCHANGED warnings
    /\ pc' = "processed"
    /\ UNCHANGED <<complete_table, errors, state_issues, timestamp, duration_str, report_year,
                   batch, files>>

\* validate_sessions_with_tolerance on the sessions and daily data at hand
EngineValidate ==
    /\ DiagnosticsCount < MaxDiagnostics
    /\ LET v == validate_sessions_with_tolerance(sessions, daily_data, TestFile)
       IN  /\ state_issues' = state_issues \o v.state_issues
           /\ warnings' = warnings \o v.warnings
           /\ sessions' = v.sessions
           /\ daily_data' = v.daily_data
    /\ pc' = "validated"
    /\ UNCHANGED <<complete_table, errors, confidence_issues, timestamp, duration_str,
                   report_year, result, batch, files>>

\* sort_results_chronologically on a list of results
EngineSortResults ==
    /\ DiagnosticsCount < MaxDiagnostics
    /\ \E rs \in EngineBatches :
          /\ results' = rs
          /\ result' = sort_results_chronologically(rs)
    /\ pc' = "sorted"
    /\ UNCHANGED <<complete_table, diagnostics, timestamp, duration_str, daily_data,
                   report_year, sessions, csv, files>>

EngineDetectGaps_reset ==
    /\ DiagnosticsCount < MaxDiagnostics
    /\ \E S \in EngineDirectories :
          warnings' = detect_potential_gaps(S)
    /\ pc' = "gaps"
    /\ UNCHANGED <<complete_table, errors, state_issues, confidence_issues, timestamp,
                   duration_str, daily_data, report_year, sessions, result,
                   batch, files>>

\* detect_potential_gaps on the files of a directory
EngineDetectGaps ==
    /\ DiagnosticsCount < MaxDiagnostics
    /\ \E S \in EngineDirectories :
          warnings' = warnings \o detect_potential_gaps(S)
    /\ pc' = "gaps"
    /\ UNCHANGED <<complete_table, errors, state_issues, confidence_issues, timestamp,
                   duration_str, daily_data, report_year, sessions, result,
                   batch, files>>

NextEngine ==
    \/ EngineClassify
    \/ EngineProcessPdf
    \/ EngineValidate
    \/ EngineSortResults
    \/ EngineDetectGaps

SpecEngine == InitEngine /\ [][NextEngine]_vars

----------------------------------------------------------------------------
(* Scan of the reconstructed table *)

\* a cell of the table, by what the scan reads from its text: None or '',
\* "HH:MM", "HH:MM - HH:MM", a duration text, or a number
Cell(k, x, e, n) == [kind |-> k, x |-> x, e |-> e, n |-> n]
NoCell == Cell("none", NoneText, NoneText, 0)
TimeCell(t) == Cell("time", t, NoneText, 0)
RangeCell(x, e) == Cell("range", x, e, 0)
DurationCell(d) == Cell("duration", d, NoneText, 0)
CountCell(n) == Cell("count", NoneText, NoneText, n)

\* row[0] and row[1:]
TableRow(label, cells) == [label |-> label, cells |-> cells]

\* row[col_idx] if col_idx < len(row) else None
CellAt(row, col) == IF col <= Len(row.cells) THEN row.cells[col] ELSE NoCell

\* cell and cell.strip()
Filled(cell) == cell.kind # "none"

\* ':' in cell or ' - ' in cell
HasTimeMark(cell) ==
    \/ cell.kind \in {"time", "range"}
    \/ cell.kind = "duration" /\ cell.x.kind \in {"h", "mins"}

\* any(unit in cell.lower() for unit in ['h', 'mins', 'min', 's'])
HasUnit(cell) == cell.kind = "duration"

\* int(re.search(r'(\d+)', visit_data).group(1))
FirstNumber(cell) == IF cell.kind = "count" THEN cell.n ELSE cell.x.a

\* the stripped text of a cell read as a timestamp, a duration or a total
TimestampText(cell) == IF cell.kind = "time" THEN cell.x ELSE JunkText
DurationText(cell) ==
    CASE cell.kind = "none" -> NoneText
      [] cell.kind = "duration" -> cell.x
      [] OTHER -> JunkText
TotalTimeText(cell) ==
    IF cell.kind \in {"time", "duration"} THEN cell.x ELSE JunkText

\* any(keyword in current_row[0].lower() for keyword in [...])
IsTotalEntries(row) == row.label = "Total Entries"
IsTimeOutside(row) == row.label = "Time Outside"

\* the cells of the date columns that decide is_time_row / is_duration_row
IsTimeRow(row, dates) ==
    \E col \in DOMAIN dates : Filled(CellAt(row, col)) /\ HasTimeMark(CellAt(row, col))
IsDurationRow(row, dates) ==
    \E col \in DOMAIN dates : Filled(CellAt(row, col)) /\ HasUnit(CellAt(row, col))

\* lines 360-366: daily_visits of every day whose cell holds a number
WithVisits(daily, row) ==
    [d \in DOMAIN daily |->
        IF Filled(CellAt(row, d))
        THEN [daily[d] EXCEPT !.daily_visits = Some(FirstNumber(CellAt(row, d)))]
        ELSE daily[d]]

\* lines 368-374: daily_total_time of every day whose cell holds text
WithTotalTime(daily, row) ==
    [d \in DOMAIN daily |->
        IF Filled(CellAt(row, d))
        THEN [daily[d] EXCEPT !.daily_total_time = TotalTimeText(CellAt(row, d))]
        ELSE daily[d]]

\* lines 411-432: the pair appended for one filled time cell
PairOf(time_cell, duration_cell) ==
    IF time_cell.kind = "range"
    THEN Complete(time_cell.x, time_cell.e, DurationText(duration_cell))
    ELSE Single(TimestampText(time_cell), DurationText(duration_cell))

\* lines 399-432: the pairs of one time row, with the cells of its duration
\* row when the next row is one
WithPairs(daily, time_row, duration_row, paired) ==
    [d \in DOMAIN daily |->
        IF Filled(CellAt(time_row, d))
        THEN [daily[d] EXCEPT !.time_duration_pairs =
                 Append(@, PairOf(CellAt(time_row, d),
                                  IF paired THEN CellAt(duration_row, d)
                                  ELSE NoCell))]
        ELSE daily[d]]

\* while i < len(complete_table) - 1, with the rows counted from 1
RECURSIVE ScanFrom(_, _, _, _)
ScanFrom(table, i, dates, daily) ==
    IF i >= Len(table) THEN daily
    ELSE LET current_row == table[i]
             next_row == table[i + 1]
             is_time_row == IsTimeRow(current_row, dates)
             is_duration_row == IsDurationRow(next_row, dates)
         IN  IF IsTotalEntries(current_row)
             THEN ScanFrom(table, i + 1, dates, WithVisits(daily, current_row))
             ELSE IF IsTimeOutside(current_row)
             THEN ScanFrom(table, i + 1, dates, WithTotalTime(daily, current_row))
             ELSE IF is_time_row
             THEN ScanFrom(table, IF is_duration_row THEN i + 2 ELSE i + 1, dates,
                           WithPairs(daily, current_row, next_row, is_duration_row))
             ELSE ScanFrom(table, i + 1, dates, daily)

\* the daily data extract_time_duration_pairs_by_day returns for the table
extract_time_duration_pairs_by_day(table) ==
    LET headers == {i \in DOMAIN table : table[i].label = "Date"}
    IN  IF headers = {} THEN <<>>
        ELSE LET header_idx == CHOOSE i \in headers : \A j \in headers : i <= j
                 dates == table[header_idx].cells
             IN  ScanFrom(table, header_idx + 1, dates,
                          [d \in DOMAIN dates |-> Day(dates[d], <<>>, None, NoneText)])

----------------------------------------------------------------------------
(* Specification of one scan *)

MaxTableRows == 4

ScanDates == <<Feb5, Feb6>>

\* the rows reconstruct_complete_table keeps: labelled rows and continuation
\* rows without a label
ScanRows ==
    {TableRow("Left - Entered",
              <<RangeCell(Time(6, 1), Time(7, 39)), TimeCell(Time(23, 10))>>),
     TableRow("", <<NoCell, TimeCell(Time(5, 0))>>),
     TableRow("Duration", <<DurationCell(DurH(1, 38)), DurationCell(DurH(0, 50))>>),
     TableRow("Duration", <<NoCell, DurationCell(DurS(36))>>),
     TableRow("Total Entries", <<CountCell(1), CountCell(2)>>),
     TableRow("Time Outside", <<DurationCell(DurH(1, 38)), DurationCell(DurH(0, 50))>>)}

InitScan ==
    /\ errors = <<>> /\ warnings = <<>> /\ state_issues = <<>>
    /\ confidence_issues = <<>>
    /\ pc = "call"
    /\ timestamp = NoneText
    /\ duration_str = NoneText
    /\ daily_data = <<>>
    /\ report_year = 0
    /\ sessions = <<>>
    /\ result = 0
    /\ NoBatch /\ NoFiles
    /\ \E k \in 0 .. MaxTableRows :
          \E body \in [1 .. k -> ScanRows] :
              complete_table = <<TableRow("Date", ScanDates)>> \o body

ExtractPairs ==
    /\ pc = "call"
    /\ daily_data' = extract_time_duration_pairs_by_day(complete_table)
    /\ pc' = "extracted"
    /\ UNCHANGED <<complete_table, diagnostics, timestamp, duration_str,
                   report_year, sessions, result, batch, files>>

NextScan == ExtractPairs

SpecScan == InitScan /\ [][NextScan]_vars

----------------------------------------------------------------------------
(* Properties of session building *)

SingleIndices(pairs) == {k \in DOMAIN pairs : pairs[k].type = "single_timestamp"}
LastSingle(pairs) == Max(SingleIndices(pairs))
FirstSingle(pairs) == CHOOSE k \in SingleIndices(pairs) :
                          \A j \in SingleIndices(pairs) : k <= j

Minutes(t) == t.a * 60 + t.b

\* the duration text parses and is within 0.5 h of the given minutes
ExactWithin(dur, minutes) ==
    /\ dur.kind \in {"h", "mins", "s"}
    /\ Abs(ExactSeconds(dur) - minutes * 60) < 1800

\* the label of the calendar day after l1, within a month
ConsecutiveDays(l1, l2) ==
    /\ l1.kind = "dm" /\ l2.kind = "dm"
    /\ l1.mon = l2.mon /\ l2.day = l1.day + 1

\* days i and i+1 end and start with an overnight pair as the spec describes it
OvernightCase(i) ==
    LET A == daily_data[i]
        B == daily_data[i + 1]
    IN  /\ ConsecutiveDays(A.date_str, B.date_str)
        /\ SingleIndices(A.time_duration_pairs) # {}
        /\ SingleIndices(B.time_duration_pairs) # {}
        /\ LET pa == A.time_duration_pairs[LastSingle(A.time_duration_pairs)]
               pb == B.time_duration_pairs[FirstSingle(B.time_duration_pairs)]
           IN  /\ pa.timestamp.kind = "hm" /\ pb.timestamp.kind = "hm"
               /\ Minutes(pa.timestamp) >= 1200
               /\ Minutes(pb.timestamp) < 480
               /\ ExactWithin(pa.duration, 1440 - Minutes(pa.timestamp))
               /\ ExactWithin(pb.duration, Minutes(pb.timestamp))

SessionAt(label, n) ==
    CHOOSE x \in {sessions[k] : k \in DOMAIN sessions} :
        x.date_str = label /\ x.session_number = n

HasSession(label, n) ==
    \E k \in DOMAIN sessions :
        sessions[k].date_str = label /\ sessions[k].session_number = n

\* the pair of days i, i+1 came out as exit / entry with its Correction
OvernightPaired(i) ==
    LET A == daily_data[i]
        B == daily_data[i + 1]
        ia == LastSingle(A.time_duration_pairs)
        ib == FirstSingle(B.time_duration_pairs)
        ta == A.time_duration_pairs[ia].timestamp
        tb == B.time_duration_pairs[ib].timestamp
    IN  /\ HasSession(A.date_str, ia) /\ HasSession(B.date_str, ib)
        /\ SessionAt(A.date_str, ia).exit_time = ta
        /\ SessionAt(A.date_str, ia).entry_time = NoneText
        /\ SessionAt(B.date_str, ib).entry_time = tb
        /\ SessionAt(B.date_str, ib).exit_time = NoneText
        /\ \E k \in DOMAIN confidence_issues :
              /\ confidence_issues[k].kind = "cross_midnight"
              /\ confidence_issues[k].date_str = A.date_str
              /\ confidence_issues[k].timestamp = ta
              /\ confidence_issues[k].date2 = B.date_str
              /\ confidence_issues[k].timestamp2 = tb

\* C5: a last single timestamp at or after 20:00 followed by the next day's
\* first single timestamp before 08:00, both durations within 0.5 h of the
\* distance to midnight, gives an exit-only and an entry-only session and a
\* cross-midnight Correction.
C5_OvernightPair ==
    pc = "done" =>
        \A i \in 1 .. (Len(daily_data) - 1) :
            OvernightCase(i) => OvernightPaired(i)

\* the overnight case with a midnight timestamp or a zero duration
MidnightBoundaryCase(i) ==
    LET A == daily_data[i]
        B == daily_data[i + 1]
        pa == A.time_duration_pairs[LastSingle(A.time_duration_pairs)]
        pb == B.time_duration_pairs[FirstSingle(B.time_duration_pairs)]
    IN  /\ OvernightCase(i)
        /\ Minutes(pa.timestamp) > 1200
        /\ \/ Minutes(pb.timestamp) = 0
           \/ ExactSeconds(pa.duration) = 0
           \/ ExactSeconds(pb.duration) = 0

\* C6: a 00:00 timestamp or a zero duration that meets the tolerance tests
\* does not prevent the pairing ("23:10" + "00:50 h", then "00:00" + "00:00 h").
C6_MidnightBoundary ==
    pc = "done" =>
        \A i \in 1 .. (Len(daily_data) - 1) :
            MidnightBoundaryCase(i) => OvernightPaired(i)

HasMonth(mon) ==
    \E i \in DOMAIN daily_data :
        daily_data[i].date_str.kind = "dm" /\ daily_data[i].date_str.mon = mon

\* C7: with both Dec and Jan labels in the report, December resolves to
\* report_year - 1 and January to report_year; otherwise every label
\* resolves to report_year.
C7_CrossYearDateFull ==
    (pc = "done" /\ result.returned /\ report_year # 0) =>
        \A k \in DOMAIN sessions :
            /\ sessions[k].date_full.ok
            /\ sessions[k].date_full.y =
                 IF HasMonth("Dec") /\ HasMonth("Jan")
                    /\ sessions[k].date_str.mon = "Dec"
                 THEN report_year - 1 ELSE report_year

----------------------------------------------------------------------------
(* Properties of validation *)

\* the number of the day's sessions with an exit_time
CalculatedVisits(label) ==
    Cardinality({k \in DOMAIN sessions :
        sessions[k].date_str = label /\ sessions[k].exit_time # NoneText})

Recorded(list, k, label) ==
    \E n \in DOMAIN list : list[n].kind = k /\ list[n].date_str = label

\* C10: per day with a reported count: difference > 2 or calculatedVisits more
\* than double the reported count gives a significant issue, a difference of
\* exactly 2 a minor note, a difference of 0 or 1 nothing.
C10_GradedMismatch ==
    pc = "validated" =>
        \A i \in DOMAIN daily_data :
            daily_data[i].daily_visits.ok =>
                LET label == daily_data[i].date_str
                    reported == daily_data[i].daily_visits.v
                    calculated == CalculatedVisits(label)
                    difference == Abs(calculated - reported)
                    significant == difference > 2 \/ calculated > 2 * reported
                IN  /\ significant => Recorded(state_issues, "significant", label)
                    /\ (~significant /\ difference = 2) =>
                          /\ Recorded(warnings, "minor", label)
                          /\ ~Recorded(state_issues, "significant", label)
                    /\ (~significant /\ difference < 2) =>
                          /\ ~Recorded(warnings, "minor", label)
                          /\ ~Recorded(state_issues, "significant", label)

\* C11: once the sessions of a report are built, every day whose reported
\* visit count differs by more than 2 from its calculatedVisits has a
\* significant MismatchIssue in the diagnostics.
C11_MismatchAfterBuild ==
    (pc = "done" /\ result.returned) =>
        \A i \in DOMAIN daily_data :
            (/\ daily_data[i].daily_visits.ok
             /\ Abs(CalculatedVisits(daily_data[i].date_str)
                    - daily_data[i].daily_visits.v) > 2) =>
                Recorded(state_issues, "significant", daily_data[i].date_str)

----------------------------------------------------------------------------
(* Properties of the emitted sessions *)

IsSet(t) == t.kind \notin {"none", "empty"}

\* the sessions emitted under one day label, in order
DaySessions(label) == SelectSeq(sessions, LAMBDA x : x.date_str = label)

\* the session of a single timestamp carries it in exactly one of its times
CarriesOnce(x, ts) ==
    \/ x.exit_time = ts /\ x.entry_time = NoneText
    \/ x.entry_time = ts /\ x.exit_time = NoneText

\* a recorded cross-midnight pair came out as two sessions, one per day
TwoHalves(note) ==
    /\ \E a, b \in DOMAIN sessions :
          /\ a # b
          /\ sessions[a].date_str = note.date_str
          /\ sessions[a].exit_time = note.timestamp
          /\ sessions[a].entry_time = NoneText
          /\ sessions[b].date_str = note.date2
          /\ sessions[b].entry_time = note.timestamp2
          /\ sessions[b].exit_time = NoneText
    /\ \A k \in DOMAIN sessions :
          (sessions[k].exit_time = note.timestamp
           /\ sessions[k].entry_time = note.timestamp2) =>
              \E i \in DOMAIN daily_data :
                  /\ daily_data[i].date_str = sessions[k].date_str
                  /\ sessions[k].session_number
                         \in DOMAIN daily_data[i].time_duration_pairs
                  /\ daily_data[i].time_duration_pairs[
                         sessions[k].session_number].type = "complete_session"

\* C12: every emitted session has an exit_time or an entry_time; a session
\* built from a single timestamp has exactly one of them; the halves of a
\* cross-midnight pair are two sessions, each under its own day.
C12_SessionTimes ==
    (pc = "done" /\ result.returned) =>
        /\ \A k \in DOMAIN sessions :
              IsSet(sessions[k].exit_time) \/ IsSet(sessions[k].entry_time)
        /\ \A i \in DOMAIN daily_data :
              \A n \in DOMAIN daily_data[i].time_duration_pairs :
                  LET pair == daily_data[i].time_duration_pairs[n]
                      label == daily_data[i].date_str
                  IN  pair.type = "single_timestamp" =>
                          /\ HasSession(label, n)
                          /\ CarriesOnce(SessionAt(label, n), pair.timestamp)
        /\ \A c \in DOMAIN confidence_issues :
              confidence_issues[c].kind = "cross_midnight" =>
                  TwoHalves(confidence_issues[c])

C12_Witness ==
    /\ pc = "done" /\ result.returned /\ Len(sessions) = 4
    /\ \E c \in DOMAIN confidence_issues :
          /\ confidence_issues[c].kind = "cross_midnight"
          /\ confidence_issues[c].date_str = Feb5
          /\ confidence_issues[c].date2 = Feb6

\* the n-th session of a day is the one built from its n-th pair
BuiltFrom(x, pair) ==
    /\ x.duration = pair.duration
    /\ IF pair.type = "complete_session"
       THEN x.exit_time = pair.exit_time /\ x.entry_time = pair.entry_time
       ELSE CarriesOnce(x, pair.timestamp)

\* C13: each day has exactly one session per pair, in the order of the pairs,
\* numbered 1, 2, ..., N, restarting at 1 for every day.
C13_SessionNumbers ==
    (pc = "done" /\ result.returned) =>
        /\ \A k \in DOMAIN sessions :
              \E i \in DOMAIN daily_data :
                  daily_data[i].date_str = sessions[k].date_str
        /\ \A i \in DOMAIN daily_data :
              LET pairs == daily_data[i].time_duration_pairs
                  built == DaySessions(daily_data[i].date_str)
              IN  /\ Len(built) = Len(pairs)
                  /\ \A n \in DOMAIN built :
                        /\ built[n].session_number = n
                        /\ BuiltFrom(built[n], pairs[n])

C13_Witness ==
    /\ pc = "done" /\ result.returned /\ Len(daily_data) = 2
    /\ Len(sessions) = 4
    /\ sessions[2].session_number = 2 /\ sessions[3].session_number = 1
    /\ sessions[2].date_str # sessions[3].date_str

AllComplete(pairs) ==
    \A n \in DOMAIN pairs : pairs[n].type = "complete_session"

\* a Correction or MismatchIssue that names the day
NamesDay(note, label) ==
    /\ note.kind \in {"since_midnight", "until_midnight", "cross_midnight",
                      "significant", "minor"}
    /\ (note.date_str = label \/ note.date2 = label)

NoIssueFor(list, label) == \A n \in DOMAIN list : ~NamesDay(list[n], label)

\* C17: a day of complete sessions only has calculatedVisits equal to its
\* number of pairs and gets no Correction and no MismatchIssue.
C17_CompleteDays ==
    (pc = "done" /\ result.returned) =>
        \A i \in DOMAIN daily_data :
            AllComplete(daily_data[i].time_duration_pairs) =>
                LET label == daily_data[i].date_str
                    built == DaySessions(label)
                IN  /\ \A n \in DOMAIN built :
                          built[n].daily_total_visits_calculated =
                              Some(Len(daily_data[i].time_duration_pairs))
                    /\ NoIssueFor(confidence_issues, label)
                    /\ NoIssueFor(state_issues, label)
                    /\ NoIssueFor(warnings, label)
                    /\ NoIssueFor(errors, label)

C17_Witness ==
    /\ pc = "done" /\ result.returned /\ Len(daily_data) = 2
    /\ Len(daily_data[1].time_duration_pairs) = 2
    /\ AllComplete(daily_data[1].time_duration_pairs)
    /\ Len(DaySessions(daily_data[1].date_str)) = 2
    /\ DaySessions(daily_data[1].date_str)[1].daily_total_visits_calculated
           = Some(2)
    /\ confidence_issues # <<>>

\* the day record with the given label
DayOf(label) ==
    CHOOSE d \in {daily_data[i] : i \in DOMAIN daily_data} : d.date_str = label

\* C20: every session carries both calculated totals, the ones
\* calculate_daily_totals gives for exactly the sessions of its day, and its
\* day's reported totals.
C20_TotalsOnEverySession ==
    (pc = "done" /\ result.returned) =>
        \A k \in DOMAIN sessions :
            LET label == sessions[k].date_str
                totals == calculate_daily_totals(DaySessions(label))
            IN  /\ sessions[k].daily_total_visits_calculated.ok
                /\ sessions[k].daily_total_visits_calculated.v
                       = CalculatedVisits(label)
                /\ sessions[k].daily_total_visits_calculated.v = totals.visits
                /\ sessions[k].daily_total_time_outside_calculated.kind = "hm"
                /\ sessions[k].daily_total_time_outside_calculated
                       = totals.time_outside
                /\ sessions[k].daily_total_visits_PDF
                       = DayOf(label).daily_visits
                /\ sessions[k].daily_total_time_outside_PDF
                       = DayOf(label).daily_total_time

C20_Witness ==
    /\ pc = "done" /\ result.returned /\ Len(sessions) = 3
    /\ sessions[1].date_str = JunkLabel
    /\ sessions[2].date_str = Feb6 /\ sessions[3].date_str = Feb6
    /\ sessions[1].daily_total_visits_calculated = Some(0)
    /\ sessions[1].daily_total_time_outside_calculated = Time(1, 0)
    /\ sessions[1].daily_total_visits_PDF = None
    /\ sessions[2].daily_total_visits_calculated = Some(2)
    /\ sessions[3].daily_total_visits_calculated = Some(2)
    /\ sessions[3].daily_total_time_outside_calculated = Time(0, 0)
    /\ sessions[3].daily_total_visits_PDF = Some(1)

\* C16: on texts and day structures of any content (null, empty, malformed,
\* out of range) the classification returns "exit" or "entry" and session
\* building returns its sessions; nothing raises.
C16_NeverRaises ==
    /\ pc = "done" => result \in {"exit", "entry"}
    /\ pc = "built" =>
          /\ ~result.raised
          /\ \A i \in DOMAIN daily_data :
                Len(DaySessions(daily_data[i].date_str))
                    = Len(daily_data[i].time_duration_pairs)

IsPrefix(a, b) == Len(a) <= Len(b) /\ SubSeq(b, 1, Len(a)) = a

\* C19: validate_sessions_with_tolerance leaves the sessions and the daily
\* data as they were; it only appends to state_issues and warnings.
C19_ValidationFrame ==
    [][(pc = "done" /\ pc' = "validated") =>
          /\ sessions' = sessions
          /\ daily_data' = daily_data
          /\ UNCHANGED <<errors, confidence_issues, report_year, result>>
          /\ IsPrefix(state_issues, state_issues')
          /\ IsPrefix(warnings, warnings')]_vars

C19_Witness ==
    /\ pc = "validated"
    /\ state_issues # <<>>
    /\ Len(sessions) >= 2
    /\ \E k \in DOMAIN sessions : ~IsCompleteVisit(sessions[k])

----------------------------------------------------------------------------
(* Properties of the cross-midnight pairer *)

\* the list single_timestamps of the report that was processed
ReportSingles ==
    SingleTimestamps(
        SortedDays(daily_data, IF report_year = 0 THEN DEFAULT_YEAR ELSE report_year))

\* the sessions built from single timestamps, in the order of single_timestamps
HalfSessions == SelectSeq(sessions, LAMBDA s : ~IsCompleteVisit(s))

TypeOf(session) == IF session.entry_time = NoneText THEN "exit" ELSE "entry"

\* the observations j and j+1 of single_timestamps were detected as a pair
InDetectedPair(st, j) == j \in CrossIndices(st) \/ (j - 1) \in CrossIndices(st)

\* C21: a cross-midnight pair overrides the classification of exactly its
\* two observations; every other single timestamp of the report, also one of
\* the same day with the same timestamp text and another duration, has the
\* type determine_single_timestamp_type gives for its timestamp and duration.
C21_OverrideOnlyThePair ==
    (pc = "done" /\ result.returned) =>
        \A j \in DOMAIN ReportSingles :
            ~InDetectedPair(ReportSingles, j) =>
                TypeOf(HalfSessions[j]) =
                    determine_single_timestamp_type(
                        ReportSingles[j].timestamp, ReportSingles[j].duration,
                        ReportSingles[j].date_str, TestFile).type

\* the label of the calendar day after l1
FollowingDay(l1, l2) ==
    \/ ConsecutiveDays(l1, l2)
    \/ /\ l1.kind = "dm" /\ l2.kind = "dm"
       /\ l2.day = 1
       /\ MonthNumber(l2.mon) = (MonthNumber(l1.mon) % 12) + 1
       /\ \E y \in {2024, 2025} : l1.day = DaysInMonth(y, MonthNumber(l1.mon))

\* the label's last and first single timestamps, NoneText without one
LastSingleOf(label) ==
    LET here == SelectSeq(ReportSingles, LAMBDA o : o.date_str = label)
    IN  IF here = <<>> THEN NoneText ELSE here[Len(here)].timestamp
FirstSingleOf(label) ==
    LET here == SelectSeq(ReportSingles, LAMBDA o : o.date_str = label)
    IN  IF here = <<>> THEN NoneText ELSE here[1].timestamp

\* C22: every cross-midnight pair is the last single timestamp of one day and
\* the first single timestamp of the calendar day that follows it; two single
\* timestamps of one day are never paired, nor those of days that are not
\* consecutive.
C22_PairSpansConsecutiveDays ==
    pc = "done" =>
        \A k \in DOMAIN confidence_issues :
            confidence_issues[k].kind = "cross_midnight" =>
                /\ FollowingDay(confidence_issues[k].date_str,
                                confidence_issues[k].date2)
                /\ confidence_issues[k].timestamp =
                      LastSingleOf(confidence_issues[k].date_str)
                /\ confidence_issues[k].timestamp2 =
                      FirstSingleOf(confidence_issues[k].date2)

----------------------------------------------------------------------------
(* Properties of the diagnostics *)

\* an entry of confidence_issues that names the call's day, timestamp and
\* duration
NamesTheCall(note) ==
    /\ note.date_str = TestDay
    /\ note.timestamp = timestamp
    /\ note.duration = duration_str

\* C23: a call that takes the long-duration branch (a parsed duration of 12 h
\* or more) appends an entry to confidence_issues that names the day, the
\* timestamp, the duration and the classification.
C23_LongDurationCorrection ==
    (pc = "done" /\ Parseable /\ DurationSeconds >= 43200) =>
        \E k \in DOMAIN confidence_issues : NamesTheCall(confidence_issues[k])

\* C24: the classification depends on the timestamp and the duration only:
\* a call for any day label and file name, after any operations and with any
\* diagnostics accumulated, returns what the call for the same timestamp and
\* duration returns on a fresh extractor, and so what the call before it
\* returned for the same timestamp and duration.
C24_FunctionOfTimestampAndDuration ==
    [][pc' = "classified" =>
          /\ result' = determine_single_timestamp_type(
                           timestamp', duration_str', TestDay, TestFile).type
          /\ (pc = "classified" /\ timestamp' = timestamp
                  /\ duration_str' = duration_str) => result' = result]_vars

\* 05:00 + 05:00 h was classified twice, for two days of two files, the
\* second time with the entry of the first call on record
C24_Witness ==
    /\ pc = "classified"
    /\ timestamp = Time(5, 0) /\ duration_str = DurH(5, 0)
    /\ result = "entry"
    /\ Len(confidence_issues) = 2
    /\ confidence_issues[1].kind = "since_midnight"
    /\ confidence_issues[2].kind = "since_midnight"
    /\ confidence_issues[1].date_str # confidence_issues[2].date_str
    /\ confidence_issues[1].file # confidence_issues[2].file

\* C25: whatever the operation (classification, session building,
\* validation, sorting, gap detection), each of the four diagnostic lists
\* before the operation is a prefix of the list after it.
C25_DiagnosticsOnlyGrow ==
    [][/\ IsPrefix(errors, errors')
       /\ IsPrefix(warnings, warnings')
       /\ IsPrefix(state_issues, state_issues')
       /\ IsPrefix(confidence_issues, confidence_issues')]_vars

\* gap detection appended its warning after another operation had left one
C25_Witness ==
    /\ pc = "gaps"
    /\ Len(warnings) = 2
    /\ warnings[1].kind = "no_time_data"
    /\ warnings[2].kind = "large_gap"

----------------------------------------------------------------------------
(* The pairer against the per-timestamp classification *)

\* build_sessions_with_enhanced_validation without lines 648-676: no key is
\* ever in cross_midnight_pairs
build_sessions_pairer_disabled(dd, pdf_filename, year) ==
    LET date_keys == SortedDays(dd, IF year = 0 THEN DEFAULT_YEAR ELSE year)
    IN  CHOOSE r \in
            {TotalsWritten(b, b.notes) :
                b \in {BuildDays(date_keys, <<>>, pdf_filename)}} :
            TRUE

\* what process_pdf would hold had the pairer been disabled
PairerDisabled ==
    LET off == build_sessions_pairer_disabled(daily_data, TestFile, report_year)
    IN  [sessions |-> WithDateFull(off.sessions, report_year),
         notes |-> off.notes, raised |-> off.raised]

HalfOf(ss) == SelectSeq(ss, LAMBDA s : ~IsCompleteVisit(s))

NotCrossMidnight(note) == note.kind # "cross_midnight"

\* the keys of a session that lines 705-736 set from the pair and its type
BuiltFields(s) ==
    <<s.date_str, s.session_number, s.exit_time, s.entry_time, s.duration>>

Holds(list, note) == \E k \in DOMAIN list : list[k] = note

\* C26 as stated: for the two observations of a detected pair the sessions
\* with the pairer disabled are the same sessions, and the diagnostics differ
\* only by the missing cross-midnight entry.
C26_OnlyTheDiagnosticMissing ==
    (pc = "done" /\ result.returned) =>
        \A off \in {PairerDisabled} :
            /\ \A j \in DOMAIN ReportSingles :
                  InDetectedPair(ReportSingles, j) =>
                      HalfOf(off.sessions)[j] = HalfSessions[j]
            /\ off.notes = SelectSeq(confidence_issues, NotCrossMidnight)

\* C26, amended: for the two observations of a detected pair the override
\* gives the type determine_single_timestamp_type gives (exit for the evening
\* one, entry for the morning one), so with the pairer disabled their sessions
\* would carry the same exit_time, entry_time, duration and session number;
\* the cross-midnight entry would be missing and the until-midnight and
\* since-midnight entries of the two classifications, which the override
\* skips, would be recorded.
C26_SameTypesOtherDiagnostics ==
    (pc = "done" /\ result.returned) =>
        \A off \in {PairerDisabled} :
            \A j \in CrossIndices(ReportSingles) :
                LET today == ReportSingles[j]
                    tomorrow == ReportSingles[j + 1]
                    exit_note == PatternNote("until_midnight", TestFile,
                                     today.date_str, today.timestamp,
                                     today.duration)
                    entry_note == PatternNote("since_midnight", TestFile,
                                      tomorrow.date_str, tomorrow.timestamp,
                                      tomorrow.duration)
                    cross_note == CrossMidnightNote(TestFile, today.date_str,
                                      today.timestamp, tomorrow.date_str,
                                      tomorrow.timestamp)
                IN  /\ TypeOf(HalfSessions[j]) = "exit"
                    /\ TypeOf(HalfSessions[j + 1]) = "entry"
                    /\ BuiltFields(HalfOf(off.sessions)[j])
                           = BuiltFields(HalfSessions[j])
                    /\ BuiltFields(HalfOf(off.sessions)[j + 1])
                           = BuiltFields(HalfSessions[j + 1])
                    /\ Holds(confidence_issues, cross_note)
                    /\ ~Holds(off.notes, cross_note)
                    /\ Holds(off.notes, exit_note) /\ Holds(off.notes, entry_note)
                    /\ ~Holds(confidence_issues, exit_note)
                    /\ ~Holds(confidence_issues, entry_note)

\* 23:10 + 00:50 h was paired with 05:00 + 05:00 h of the next day
C26_Witness ==
    /\ pc = "done" /\ result.returned
    /\ Len(daily_data) = 2
    /\ daily_data[1].time_duration_pairs = <<Single(Time(23, 10), DurH(0, 50))>>
    /\ daily_data[2].time_duration_pairs = <<Single(Time(5, 0), DurH(5, 0))>>
    /\ CrossIndices(ReportSingles) = {1}
    /\ Len(confidence_issues) = 1
    /\ confidence_issues[1].kind = "cross_midnight"

----------------------------------------------------------------------------
(* Days around the turn of the year *)

\* day i is 31 Dec and day i+1 is 1 Jan, and the last single timestamp of the
\* one and the first of the other meet the tests of the pairer
NewYearCase(i) ==
    LET A == daily_data[i]
        B == daily_data[i + 1]
    IN  /\ A.date_str = Dec31 /\ B.date_str = Jan1
        /\ SingleIndices(A.time_duration_pairs) # {}
        /\ SingleIndices(B.time_duration_pairs) # {}
        /\ CrossMidnightDetected(
               A.time_duration_pairs[LastSingle(A.time_duration_pairs)],
               B.time_duration_pairs[FirstSingle(B.time_duration_pairs)])

\* C27: the days are processed in calendar order: in a report with December
\* and January labels every December session precedes every January session,
\* and 31 Dec / 1 Jan are today / tomorrow for the pairer, so an overnight
\* session across New Year is paired.
C27_CalendarOrderAcrossNewYear ==
    (pc = "done" /\ result.returned /\ HasMonth("Dec") /\ HasMonth("Jan")) =>
        /\ \A i, j \in DOMAIN sessions :
              (sessions[i].date_str.mon = "Dec" /\ sessions[j].date_str.mon = "Jan")
                  => i < j
        /\ \A i \in 1 .. (Len(daily_data) - 1) :
              NewYearCase(i) => OvernightPaired(i)

----------------------------------------------------------------------------
(* Properties of repeated merges *)

\* C28: a second run of the merge on the same new data leaves the master
\* dataset as the first run wrote it and reports every new row as a
\* duplicate.
C28_MergeIdempotent ==
    [][(pc = "merged" /\ pc' = "remerged") =>
          /\ master_dataset' = master_dataset
          /\ duplicate_report'.processed = Len(processed_data)
          /\ duplicate_report'.duplicates = Len(processed_data)
          /\ duplicate_report'.unique = 0
          /\ duplicate_report'.total = Len(master_dataset)]_vars

\* the second run found both rows of the new data, one of which the first run
\* had appended to a master of one row
C28_Witness ==
    /\ pc = "remerged"
    /\ Len(processed_data) = 2 /\ Len(master_dataset) = 2
    /\ master_dataset[2] \in {processed_data[1], processed_data[2]}
    /\ master_dataset[1].filename # master_dataset[2].filename
    /\ duplicate_report.duplicates = 2 /\ duplicate_report.unique = 0

\* no two rows of the dataset have the same composite key
DistinctKeys(df) ==
    \A i, j \in DOMAIN df :
        CompositeKey(df[i]) = CompositeKey(df[j]) => i = j

\* C29: a merge into a master dataset that is empty or whose composite keys
\* are pairwise distinct leaves a master dataset whose composite keys are
\* pairwise distinct, also when the new data holds the same session twice;
\* so does every sequence of merges from such a master.
C29_KeysStayDistinct ==
    [][DistinctKeys(master_dataset) => DistinctKeys(master_dataset')]_vars

----------------------------------------------------------------------------
(* Properties of the table scan *)

LastRow == complete_table[Len(complete_table)]

HasPair(d, pair) ==
    \E k \in DOMAIN daily_data[d].time_duration_pairs :
        daily_data[d].time_duration_pairs[k] = pair

\* C30: the scan handles every row after the date header, the last one too:
\* a 'Total Entries' or 'Time Outside' row that ends the table gives the days
\* their reported totals, and a row of timestamps that ends the table gives
\* them its pairs.  (That the scan terminates shows in every behaviour
\* reaching "extracted".)
C30_LastRowContributes ==
    (pc = "extracted" /\ Len(complete_table) >= 2) =>
        \A d \in DOMAIN ScanDates :
            LET cell == CellAt(LastRow, d)
            IN  /\ (IsTotalEntries(LastRow) /\ cell.kind = "count") =>
                      daily_data[d].daily_visits = Some(cell.n)
                /\ (IsTimeOutside(LastRow) /\ cell.kind = "duration") =>
                      daily_data[d].daily_total_time = cell.x
                /\ (LastRow.label \in {"Left - Entered", ""} /\ cell.kind = "time") =>
                      HasPair(d, Single(cell.x, NoneText))
                /\ (LastRow.label \in {"Left - Entered", ""} /\ cell.kind = "range") =>
                      HasPair(d, Complete(cell.x, cell.e, NoneText))

====
